---- MODULE Spec2Model ----
(***************************************************************************)
(* A model of simple_email_parser: the Normalizer (HtmlProcessor.process), *)
(* the Message Extractor and the Timeline Reconciler (JsonProcessor).      *)
(*                                                                         *)
(* The specifications share the variables:                                 *)
(*   Spec        the document pipeline, from a parsed tree to the records  *)
(*   SpecTwice   the pipeline run again on its own result                  *)
(*   SpecHeaders the pipeline up to process_headers, a step per candidate  *)
(*   SpecExtract extract_messages on trees as they are handed in           *)
(*   SpecJson    JsonProcessor.process / process_timestamps on messages    *)
(*   SpecParse   JsonProcessor.process from parse_messages, on records     *)
(*   SpecMail    EmailParser: the pipeline, then JsonProcessor.process     *)
(*   SpecLoad    HtmlProcessor reading a file, in two interpreter runs     *)
(***************************************************************************)
EXTENDS Integers, Sequences, FiniteSets, TLC

VARIABLES
    messages,      \* JsonProcessor: the list[Message] being processed
    jpc,           \* JsonProcessor: position inside process()
    entry,         \* which public method was called: "process" | "process_timestamps"
    main_contact,  \* JsonProcessor.main_contact is set (TRUE) or None (FALSE)
    jin,           \* the list as it was handed to process_timestamps
    jparsed,       \* the list as it was at the start (parse_messages' result)
    soup,          \* HtmlProcessor.soup: every node ever created, by identity
    pc,            \* HtmlProcessor.process: the rewrite about to run
    changed,       \* the flag changed as the last iteration of a while-changed loop left it
    loop_counter,  \* unwrap_div's loop_counter
    headers,       \* improve_blockquote: the list find_all returned for the header loop
    hpos,          \* improve_blockquote: position of the for loop in headers
    error,         \* the exception process() raised, "none" if it returned
    records,       \* JsonProcessor.extract_messages' result
    original,      \* the tree as it was handed to process()
    round,         \* how many times process() has been called on this soup
    first_out,     \* the tree as the first call of process() left it
    filebytes,     \* the bytes of the file at HtmlProcessor.filepath
    given,         \* the encoding argument of HtmlProcessor, "none" for None
    order,         \* the order in which the running interpreter iterates ENCODINGS
    loads          \* what each finished run of _read_file left: encoding and html

jvars == <<messages, jpc, entry, main_contact, jin, jparsed>>

hvars == <<soup, pc, changed, loop_counter, headers, hpos, error, records, original, round, first_out>>

lvars == <<filebytes, given, order, loads>>

vars == <<messages, jpc, entry, main_contact, jin, jparsed,
          soup, pc, changed, loop_counter, headers, hpos, error, records, original, round, first_out,
          filebytes, given, order, loads>>

\* no HtmlProcessor is running (the state of the document variables under SpecJson)
HIdle ==
    /\ soup = <<>>
    /\ pc = "idle"
    /\ changed = FALSE
    /\ loop_counter = 0
    /\ headers = <<>>
    /\ hpos = 0
    /\ error = "none"
    /\ records = <<>>
    /\ original = <<>>
    /\ round = 0
    /\ first_out = <<>>

\* no JsonProcessor timeline is being computed (the state of the list variables under Spec)
JIdle ==
    /\ messages = <<>>
    /\ jpc = "idle"
    /\ entry = "none"
    /\ main_contact = FALSE
    /\ jin = <<>>
    /\ jparsed = <<>>

\* no file is being read (the state of the file variables outside SpecLoad)
LIdle ==
    /\ filebytes = <<>>
    /\ given = "none"
    /\ order = <<>>
    /\ loads = <<>>

(***************************************************************************)
(* Time.  A datetime is a wall-clock reading in ticks plus an optional     *)
(* fixed offset.  A tick is 1/64 minute, so that halving a difference of   *)
(* whole minutes a few times in a row stays exact, as timedelta / 2 does   *)
(* at microsecond resolution.                                              *)
(***************************************************************************)
Minute == 8 * 8
Hour == 60 * Minute
Day == 24 * Hour

\* datetime.timezone(datetime.timedelta(hours=3))
MskOff == 3 * Hour

\* header.sent is None
NoneDT == [has |-> FALSE, wall |-> 0, aware |-> FALSE, off |-> 0]

\* datetime.datetime(..., hour, 0) on day d, offset-naive
Naive(d, h) == [has |-> TRUE, wall |-> d * Day + h * Hour, aware |-> FALSE, off |-> 0]

\* the same with tzinfo = timezone(timedelta(hours = o))
Aware(d, h, o) == [has |-> TRUE, wall |-> d * Day + h * Hour, aware |-> TRUE, off |-> o * Hour]

\* dt.time() == datetime.time(0, 0, 0)
IsMidnight(dt) == dt.wall % Day = 0

\* "sent is None, or midnight with no tzinfo": the reconciler's notion of unknown
IsDateOnly(dt) == dt.has /\ IsMidnight(dt) /\ ~dt.aware

\* the test the code repeats for a neighbour: sent and (time != 00:00 or tzinfo)
IsKnown(dt) == dt.has /\ (~IsMidnight(dt) \/ dt.aware)

(***************************************************************************)
(* Messages.  A Message is its header (present or None), the header's sent *)
(* field and its text; the text is an identifier, enough to follow a       *)
(* message through reversal.                                               *)
(***************************************************************************)
MaxMsgs == 4

\* Message(header=None, text=t)
NoHeaderMsg(t) == [hdr |-> FALSE, sent |-> NoneDT, text |-> t]

\* Message(header=Header(from_=..., sent=s), text=t)
HeaderMsg(s, t) == [hdr |-> TRUE, sent |-> s, text |-> t]

\* what _parse_datetime can return for a header text: none, a date alone
\* (midnight, naive), a naive date and time, a date and time with an offset
SentValues ==
    { NoneDT,
      Naive(1, 0), Naive(2, 0),
      Naive(1, 10), Naive(1, 14), Naive(2, 10),
      Aware(1, 14, 5), Aware(2, 0, 3), Aware(1, 12, 3) }

\* dt1 - dt2 (a timedelta, in ticks); the operands are both naive or both aware
Sub(a, b) == IF a.aware THEN (a.wall - a.off) - (b.wall - b.off) ELSE a.wall - b.wall

\* timedelta / 2: _divide_and_round, rounding half to even
DivRound2(d) ==
    LET q == d \div 2
        r == d - 2 * q
    IN  IF r = 1 /\ q % 2 = 1 THEN q + 1 ELSE q

\* dt + timedelta(ticks): the wall clock moves, tzinfo stays
PlusTicks(dt, t) == [dt EXCEPT !.wall = @ + t]

\* _convert_to_msk with dt.replace(tzinfo=msk_tz) on both paths: an aware
\* timestamp keeps its wall clock instead of its instant
ConvertToMsk_Replace(dt) ==
    IF ~dt.has THEN dt ELSE [dt EXCEPT !.aware = TRUE, !.off = MskOff]

\* _convert_to_msk
ConvertToMsk(dt) ==
    IF ~dt.has THEN dt
    ELSE IF ~dt.aware THEN [dt EXCEPT !.aware = TRUE, !.off = MskOff]
    ELSE [dt EXCEPT !.wall = @ + (MskOff - dt.off), !.off = MskOff]

\* "messages[j].header and messages[j].header.sent and (time != 00:00 or tzinfo)"
KnownAt(msgs, j) == msgs[j].hdr /\ IsKnown(msgs[j].sent)

\* for j in range(i - 1, -1, -1): the nearest earlier message with a known time
PrevKnown(msgs, i) ==
    LET js == {j \in 1..(i - 1) : KnownAt(msgs, j)}
    IN  IF js = {} THEN NoneDT ELSE msgs[CHOOSE j \in js : \A k \in js : k <= j].sent

\* for j in range(i + 1, len(messages)): the nearest later message with a known time
NextKnown(msgs, i) ==
    LET js == {j \in (i + 1)..Len(msgs) : KnownAt(msgs, j)}
    IN  IF js = {} THEN NoneDT ELSE msgs[CHOOSE j \in js : \A k \in js : j <= k].sent

\* the i == 0 branch adding the hour instead of subtracting it
CalcFirst_PlusHour(msgs, i) ==
    IF i + 1 <= Len(msgs) /\ msgs[i + 1].hdr /\ IsKnown(msgs[i + 1].sent)
    THEN [msgs[i + 1].sent EXCEPT !.wall = @ + Hour]
    ELSE NoneDT

\* the i == 0 branch: the next message's time minus one hour
CalcFirst(msgs, i) ==
    IF i + 1 <= Len(msgs) /\ KnownAt(msgs, i + 1)
    THEN PlusTicks(msgs[i + 1].sent, -Hour)
    ELSE NoneDT

\* the i == len(messages) - 1 branch: the previous message's time plus one hour
CalcLast(msgs, i) ==
    IF i - 1 >= 1 /\ KnownAt(msgs, i - 1)
    THEN PlusTicks(msgs[i - 1].sent, Hour)
    ELSE NoneDT

\* prev_time + (next_time - prev_time) / 2, a naive side first taken as MSK
\* when the other side has an offset
Midpoint(p, n) ==
    LET p2 == IF ~p.aware /\ n.aware THEN ConvertToMsk(p) ELSE p
        n2 == IF p.aware /\ ~n.aware THEN ConvertToMsk(n) ELSE n
    IN  PlusTicks(p2, DivRound2(Sub(n2, p2)))

\* the else branch looking at the two adjacent messages only, as the
\* boundary branches do
CalcInterior_Adjacent(msgs, i) ==
    LET p == IF msgs[i - 1].hdr /\ IsKnown(msgs[i - 1].sent) THEN msgs[i - 1].sent ELSE NoneDT
        n == IF msgs[i + 1].hdr /\ IsKnown(msgs[i + 1].sent) THEN msgs[i + 1].sent ELSE NoneDT
    IN  IF p.has /\ n.has THEN Midpoint(p, n) ELSE NoneDT

\* the else branch: an interior message
CalcInterior(msgs, i) ==
    LET p == PrevKnown(msgs, i)
        n == NextKnown(msgs, i)
    IN  IF p.has /\ n.has THEN Midpoint(p, n) ELSE NoneDT

\* the calculated time stored as it is, base_date ignored
Combine_CalcDate(base, calc) == calc

\* datetime.combine(base_date, calculated_time.time(), tzinfo=calculated_time.tzinfo)
Combine(base, calc) == [calc EXCEPT !.wall = (base.wall \div Day) * Day + (calc.wall % Day)]

\* one pass of the loop body of process_timestamps, for index i (1-based)
ProcessAt(msgs, i) ==
    LET msg == msgs[i]
        needs == msg.hdr /\ (~msg.sent.has \/ IsDateOnly(msg.sent))
        has_base == msg.hdr /\ IsDateOnly(msg.sent)
        calc == IF i = 1 THEN CalcFirst(msgs, i)
                ELSE IF i = Len(msgs) THEN CalcLast(msgs, i)
                ELSE CalcInterior(msgs, i)
    IN  IF needs /\ calc.has
        THEN [msgs EXCEPT ![i].sent = IF has_base THEN Combine(msg.sent, calc) ELSE calc]
        ELSE msgs

RECURSIVE TimestampsFrom(_, _)
\* for i, msg in enumerate(messages): the list is updated in place
TimestampsFrom(msgs, i) ==
    IF i > Len(msgs) THEN msgs ELSE TimestampsFrom(ProcessAt(msgs, i), i + 1)

\* process_timestamps
process_timestamps(msgs) == TimestampsFrom(msgs, 1)

\* reverse_messages returning the list as it came
reverse_messages_Same(msgs) == msgs

\* list(...): the finite sequence f[1], ..., f[Len(f)] as a list in its own right
List(f) == SubSeq(f, 1, Len(f))

\* reverse_messages
reverse_messages(msgs) == List([k \in 1..Len(msgs) |-> msgs[Len(msgs) + 1 - k]])

\* process(), lines 528-530: every present sent goes through _convert_to_msk
ConvertAll(msgs) ==
    List([k \in 1..Len(msgs) |->
        IF msgs[k].hdr /\ msgs[k].sent.has
        THEN [msgs[k] EXCEPT !.sent = ConvertToMsk(@)]
        ELSE msgs[k]])

(***************************************************************************)
(* SpecJson: JsonProcessor.process after parse_messages, and               *)
(* process_timestamps called on a list of its own.                         *)
(***************************************************************************)

\* a Message as parse_messages builds it for a quote record: no header (the
\* header text did not parse, or there was none and no main contact), or a
\* header whose sent is whatever _parse_datetime returned
MsgValues(t) == {NoHeaderMsg(t)} \cup {HeaderMsg(s, t) : s \in SentValues}

\* lists of exactly n messages, texts numbered from t0 + 1
RECURSIVE MsgLists(_, _)
MsgLists(n, t0) ==
    IF n = 0 THEN {<<>>}
    ELSE {<<m>> \o rest : m \in MsgValues(t0 + 1), rest \in MsgLists(n - 1, t0 + 1)}

\* parse_messages for the root record: header_str is None, so the header is
\* Header(from_=main_contact, sent=None) or None
RootMsg(mc) == IF mc THEN HeaderMsg(NoneDT, 1) ELSE NoHeaderMsg(1)

\* JsonProcessor(...).process(): extraction order, the root record first
InitProcess ==
    /\ entry = "process"
    /\ main_contact \in BOOLEAN
    /\ \E n \in 0..(MaxMsgs - 1) : \E rest \in MsgLists(n, 1) :
           messages = <<RootMsg(main_contact)>> \o rest
    /\ jpc = "parsed"
    /\ jin = <<>>
    /\ jparsed = messages

\* JsonProcessor(...).process_timestamps(messages): any list of messages
InitDirect ==
    /\ entry = "process_timestamps"
    /\ main_contact = FALSE
    /\ \E n \in 1..MaxMsgs : messages \in MsgLists(n, 0)
    /\ jpc = "reversed"
    /\ jin = <<>>
    /\ jparsed = messages

JInit == HIdle /\ LIdle /\ (InitProcess \/ InitDirect)

\* messages = self.reverse_messages(messages)
ReverseMessages ==
    /\ jpc = "parsed"
    /\ messages' = reverse_messages(messages)
    /\ jpc' = "reversed"
    /\ UNCHANGED <<entry, main_contact, jin, jparsed>>
    /\ UNCHANGED hvars
    /\ UNCHANGED lvars

\* messages = self.process_timestamps(messages)
ProcessTimestamps ==
    /\ jpc = "reversed"
    /\ jin' = messages
    /\ messages' = process_timestamps(messages)
    /\ jpc' = "reconciled"
    /\ UNCHANGED <<entry, main_contact, jparsed>>
    /\ UNCHANGED hvars
    /\ UNCHANGED lvars

\* for msg in messages: if msg.header and msg.header.sent: _convert_to_msk
ConvertTimestamps ==
    /\ jpc = "reconciled"
    /\ entry = "process"
    /\ messages' = ConvertAll(messages)
    /\ jpc' = "done"
    /\ UNCHANGED <<entry, main_contact, jin, jparsed>>
    /\ UNCHANGED hvars
    /\ UNCHANGED lvars

JNext == ReverseMessages \/ ProcessTimestamps \/ ConvertTimestamps

SpecJson == JInit /\ [][JNext]_vars

(***************************************************************************)
(* Text.  A string is a sequence of tokens: a word (a maximal run of       *)
(* non-whitespace characters, or a phrase the header patterns treat as a   *)
(* unit), a space, a newline, or, in rendered HTML, a piece of markup.  A  *)
(* word carries the identity w of the text node of the original document   *)
(* it was read from, so that text can be followed through the rewrites;    *)
(* two text nodes holding words of the same classes hold the same string.  *)
(*                                                                         *)
(* Word classes, each standing for one string:                             *)
(*   plain  hello                                                          *)
(*   one    14.05.2024, 17:35, "A" <a@b.c>:                                *)
(*   kv     From: a@b.c Sent: 14.05.2024 17:35                             *)
(*   key    To: x@y.z;                                                     *)
(*   fwd    -------- Forwarded message --------                            *)
(*   end    -------- End of forwarded message --------                     *)
(*   wrote  Вы писали 14.05.2024:                                          *)
(*   sd     Sent: 14.05.2024 17:35 Date: 14.05.2024                        *)
(*   amp    R&D                                                            *)
(* In rendered HTML a word with &, < or > in it is spelled with entities   *)
(* (a = "entities").                                                       *)
(***************************************************************************)
Word(w, c) == [k |-> "w", w |-> w, c |-> c, a |-> ""]

SP == [k |-> "s", w |-> 0, c |-> " ", a |-> ""]

NL == [k |-> "s", w |-> 0, c |-> "\n", a |-> ""]

\* markup of decode_contents(): <name attr>, </name>, <br/>
Markup(kind, name, attr) == [k |-> kind, w |-> 0, c |-> name, a |-> attr]

\* str.isspace() of a one-character token
IsSpace(t) == t.k = "s"

\* for x in s: acc = step(acc, x).  The list is run through in order, one half
\* after the other, so that the evaluation of a long list stays shallow.
FoldSeq(step(_, _), acc, s) ==
    LET RECURSIVE Run(_, _, _)
        Run(a, lo, hi) ==
            IF lo > hi THEN a
            ELSE IF lo = hi THEN step(a, s[lo])
            ELSE LET mid == (lo + hi) \div 2
                     left == Run(a, lo, mid)
                 IN IF left = left THEN Run(left, mid + 1, hi) ELSE a
    IN Run(acc, 1, Len(s))

\* the positions of s that hold no whitespace
NonSpaces(s) == {i \in 1..Len(s) : ~IsSpace(s[i])}

\* str.lstrip()
LStrip(s) ==
    LET ns == NonSpaces(s) IN
    IF ns = {} THEN <<>> ELSE SubSeq(s, CHOOSE i \in ns : \A j \in ns : i <= j, Len(s))

\* str.rstrip()
RStrip(s) ==
    LET ns == NonSpaces(s) IN
    IF ns = {} THEN <<>> ELSE SubSeq(s, 1, CHOOSE i \in ns : \A j \in ns : i >= j)

\* str.strip()
Strip(s) == RStrip(LStrip(s))

\* len(word): the length of the string a word class stands for
WordLen(c) ==
    CASE c = "plain" -> 5
      [] c = "one" -> 31
      [] c = "kv" -> 34
      [] c = "key" -> 10
      [] c = "fwd" -> 35
      [] c = "end" -> 42
      [] c = "wrote" -> 21
      [] c = "sd" -> 39
      [] c = "amp" -> 3
      [] OTHER -> 1

\* len(text)
TextLen(s) == FoldSeq(LAMBDA n, t : n + (IF t.k = "w" THEN WordLen(t.c) ELSE 1), 0, s)

\* text.count("\n")
CountNewlines(s) == Cardinality({i \in 1..Len(s) : s[i] = NL})

\* the classes of the words of a text
Classes(s) == {s[i].c : i \in {j \in 1..Len(s) : s[j].k = "w"}}

\* sep.join(parts) for a list of strings
Join(sep, parts) ==
    IF parts = <<>> THEN <<>>
    ELSE FoldSeq(LAMBDA joined, part : joined \o sep \o part, parts[1], Tail(parts))

(***************************************************************************)
(* The tree.  soup is the sequence of all nodes ever created; a node is    *)
(* known by its position, which stands for the identity of the bs4 object. *)
(* Node 1 is the BeautifulSoup object.  A text node (NavigableString) has  *)
(* the name "#text".  parent = 0 is None.  attr is the value of the        *)
(* attribute simple-email-parse-attr ("" when absent); before              *)
(* clear_attributes it may also hold the class or data-type that           *)
(* clear_attributes reads.                                                  *)
(***************************************************************************)
Root == 1

\* soup.new_tag(name) / NavigableString(text): a node outside the tree
NewNode(name, attr, text) ==
    [name |-> name, attr |-> attr, text |-> text, parent |-> 0, kids |-> <<>>, dead |-> FALSE]

\* isinstance(x, bs4.Tag)
IsTag(ar, x) == x # 0 /\ ar[x].name # "#text"

\* isinstance(x, bs4.NavigableString)
IsString(ar, x) == x # 0 /\ ar[x].name = "#text"

\* isinstance(x, bs4.NavigableString) and not x.strip()
IsBlank(ar, x) == IsString(ar, x) /\ Strip(ar[x].text) = <<>>

\* isinstance(x, bs4.Tag) and x.name == name
IsNamed(ar, x, name) == IsTag(ar, x) /\ ~ar[x].dead /\ ar[x].name = name

\* list.index / Tag.index, 1-based
IndexOf(s, x) == CHOOSE i \in 1..Len(s) : s[i] = x

\* the list without x
Without(s, x) == SelectSeq(s, LAMBDA e : e # x)

\* list.insert(pos, x), pos 0-based
InsertAt(s, pos, x) == SubSeq(s, 1, pos) \o <<x>> \o SubSeq(s, pos + 1, Len(s))

\* x.next_sibling
NextSibling(ar, x) ==
    LET p == ar[x].parent IN
    IF p = 0 THEN 0
    ELSE LET i == IndexOf(ar[p].kids, x) IN
         IF i < Len(ar[p].kids) THEN ar[p].kids[i + 1] ELSE 0

\* x.previous_sibling
PreviousSibling(ar, x) ==
    LET p == ar[x].parent IN
    IF p = 0 THEN 0
    ELSE LET i == IndexOf(ar[p].kids, x) IN
         IF i > 1 THEN ar[p].kids[i - 1] ELSE 0

RECURSIVE DescendantsOfList(_, _)
\* the nodes below a list of siblings, in document order
DescendantsOfList(ar, ks) ==
    FoldSeq(LAMBDA found, k : found \o <<k>> \o DescendantsOfList(ar, ar[k].kids), <<>>, ks)

\* x.descendants
Descendants(ar, x) == DescendantsOfList(ar, ar[x].kids)

\* soup.find_all(): every tag of the tree, in document order
FindAllTags(ar) == SelectSeq(Descendants(ar, Root), LAMBDA d : IsTag(ar, d))

\* soup.find_all(name)
FindAll(ar, name) == SelectSeq(Descendants(ar, Root), LAMBDA d : IsTag(ar, d) /\ ar[d].name = name)

\* str(attr).startswith("quote_header")
IsHeaderAttr(a) == a \in {"quote_header_oneline", "quote_header_block", "quote_header_multiple_block"}

\* soup.find_all(attrs={"simple-email-parse-attr": re.compile(r"^quote_header_")})
FindAllHeaders(ar) == SelectSeq(Descendants(ar, Root), LAMBDA d : IsTag(ar, d) /\ IsHeaderAttr(ar[d].attr))

RECURSIVE Depth(_, _)
\* len(list(x.parents))
Depth(ar, x) == IF ar[x].parent = 0 THEN 0 ELSE 1 + Depth(ar, ar[x].parent)

\* sorted(nodes, key=depth, reverse=True): a stable sort, deepest first
SortDeepestFirst(ar, nodes, depth(_, _)) ==
    LET key == [i \in 1..Len(nodes) |-> depth(ar, nodes[i])]
        deepest == CHOOSE d \in {0} \cup {key[i] : i \in 1..Len(nodes)} :
                       \A i \in 1..Len(nodes) : key[i] <= d
        RECURSIVE Gather(_)
        Gather(d) == IF d < 0 THEN <<>>
                     ELSE SelectSeq(nodes, LAMBDA n : depth(ar, n) = d) \o Gather(d - 1)
    IN Gather(deepest)

\* x.extract()
Extract(ar, x) ==
    LET p == ar[x].parent IN
    IF p = 0 THEN ar
    ELSE [ar EXCEPT ![p].kids = Without(@, x), ![x].parent = 0]

\* p.insert(pos, x), pos 0-based: x leaves the place it had
Insert(ar, p, pos, x) ==
    LET pos1 == IF pos > Len(ar[p].kids) THEN Len(ar[p].kids) ELSE pos
        pos2 == IF ar[x].parent = p /\ IndexOf(ar[p].kids, x) - 1 < pos1 THEN pos1 - 1 ELSE pos1
        a1 == Extract(ar, x)
    IN [a1 EXCEPT ![p].kids = InsertAt(@, pos2, x), ![x].parent = p]

\* p.append(x)
AppendChild(ar, p, x) == Insert(ar, p, Len(ar[p].kids), x)

\* x.insert_before(y)
InsertBefore(ar, x, y) ==
    LET p == ar[x].parent
        a1 == Extract(ar, y)
    IN Insert(a1, p, IndexOf(a1[p].kids, x) - 1, y)

\* x.insert_after(y)
InsertAfter(ar, x, y) ==
    LET p == ar[x].parent
        a1 == Extract(ar, y)
    IN Insert(a1, p, IndexOf(a1[p].kids, x), y)

\* x.unwrap(): the children of x take its place (x has a parent)
Unwrap(ar, x) ==
    LET p == ar[x].parent
        i == IndexOf(ar[p].kids, x)
        ks == ar[x].kids
    IN List([n \in 1..Len(ar) |->
           IF n = p THEN [ar[n] EXCEPT !.kids = SubSeq(@, 1, i - 1) \o ks \o SubSeq(@, i + 1, Len(@))]
           ELSE IF n = x THEN [ar[n] EXCEPT !.kids = <<>>, !.parent = 0]
           ELSE IF \E j \in 1..Len(ks) : ks[j] = n THEN [ar[n] EXCEPT !.parent = p]
           ELSE ar[n]])

\* x.decompose(): x leaves the tree and it and everything below it is destroyed
Decompose(ar, x) ==
    LET a1 == Extract(ar, x)
        ds == Descendants(ar, x)
        below == {x} \cup {ds[j] : j \in 1..Len(ds)}
    IN List([n \in 1..Len(a1) |->
           IF n \in below THEN [a1[n] EXCEPT !.kids = <<>>, !.parent = 0, !.dead = TRUE] ELSE a1[n]])

\* x.clear(): every child of x is extracted
Clear(ar, x) ==
    LET ks == ar[x].kids IN
    List([n \in 1..Len(ar) |->
        IF n = x THEN [ar[n] EXCEPT !.kids = <<>>]
        ELSE IF \E j \in 1..Len(ks) : ks[j] = n THEN [ar[n] EXCEPT !.parent = 0]
        ELSE ar[n]])

\* x.string = text: clear(), then append a new NavigableString
SetString(ar, x, text) ==
    LET a1 == Append(Clear(ar, x), NewNode("#text", "", text))
    IN AppendChild(a1, x, Len(a1))

\* the strings below x, in document order, each stripped, the empty ones left out
StrippedStrings(ar, x) ==
    LET ids == SelectSeq(Descendants(ar, x), LAMBDA d : IsString(ar, d))
        parts == List([i \in 1..Len(ids) |-> Strip(ar[ids[i]].text)])
    IN SelectSeq(parts, LAMBDA t : t # <<>>)

\* x.get_text(separator=" ", strip=True)
GetTextSpaced(ar, x) == Join(<<SP>>, StrippedStrings(ar, x))

\* x.get_text(strip=True)
GetText(ar, x) == Join(<<>>, StrippedStrings(ar, x))

\* the word classes whose string holds one of the characters &, < and >
EntityWords == {"one", "amp"}

\* NavigableString.output_ready(formatter="minimal"): the text with &, < and >
\* written as &amp;, &lt; and &gt;
OutputReady(text) ==
    List([i \in 1..Len(text) |->
            IF text[i].k = "w" /\ text[i].c \in EntityWords
            THEN [text[i] EXCEPT !.a = "entities"] ELSE text[i]])

RECURSIVE DecodeList(_, _)
\* the rendering of a list of siblings as HTML
DecodeList(ar, ks) ==
    FoldSeq(LAMBDA html, x :
                html \o (IF IsString(ar, x) THEN OutputReady(ar[x].text)
                         ELSE IF ar[x].name = "br" /\ ar[x].kids = <<>>
                              THEN <<Markup("<br/>", "br", ar[x].attr)>>
                              ELSE <<Markup("<", ar[x].name, ar[x].attr)>>
                                   \o DecodeList(ar, ar[x].kids)
                                   \o <<Markup("</", ar[x].name, "")>>),
            <<>>, ks)

\* x.decode_contents()
DecodeContents(ar, x) == DecodeList(ar, ar[x].kids)

RECURSIVE GetSignificantSibling(_, _, _, _)
\* HtmlProcessor._get_significant_sibling(node, direction, ignore_br)
GetSignificantSibling(ar, node, direction, ignore_br) ==
    LET curr == IF direction = "next" THEN NextSibling(ar, node) ELSE PreviousSibling(ar, node) IN
    IF curr = 0 THEN 0
    ELSE IF IsBlank(ar, curr) THEN GetSignificantSibling(ar, curr, direction, ignore_br)
    ELSE IF ignore_br /\ IsNamed(ar, curr, "br") THEN GetSignificantSibling(ar, curr, direction, ignore_br)
    ELSE curr

RECURSIVE IsRemovableNode(_, _)
\* HtmlProcessor._is_removable_node(node)
IsRemovableNode(ar, node) ==
    IF IsString(ar, node) THEN Strip(ar[node].text) = <<>>
    ELSE IF ar[node].name = "br" THEN TRUE
    ELSE IF ar[node].name = "div"
         THEN \A i \in 1..Len(ar[node].kids) : IsRemovableNode(ar, ar[node].kids[i])
    ELSE FALSE

\* unwrap_div._is_quote_header(tag), move_remnants._is_quote_header(tag)
IsQuoteHeader(ar, x) == IsTag(ar, x) /\ IsHeaderAttr(ar[x].attr)

\* unwrap_div._is_structural_block(tag)
IsStructuralBlock(ar, x) ==
    /\ IsTag(ar, x)
    /\ \/ IsQuoteHeader(ar, x)
       \/ ar[x].name \in {"div", "blockquote", "hr", "center", "form", "header", "footer", "ul", "ol"}

\* unwrap_div._has_structural_children(tag)
HasStructuralChildren(ar, x) == \E i \in 1..Len(ar[x].kids) : IsStructuralBlock(ar, ar[x].kids[i])

RECURSIVE EndsWithBrDeep(_, _)
\* unwrap_div._ends_with_br(tag): looks into the last child, recursively
EndsWithBrDeep(ar, x) ==
    IF ar[x].kids = <<>> THEN FALSE
    ELSE LET last == ar[x].kids[Len(ar[x].kids)] IN
         IF IsNamed(ar, last, "br") THEN TRUE
         ELSE IF IsTag(ar, last) THEN EndsWithBrDeep(ar, last)
         ELSE FALSE

\* unwrap_div._starts_with_br(tag)
StartsWithBr(ar, x) == ar[x].kids # <<>> /\ IsNamed(ar, ar[x].kids[1], "br")

\* move_remnants.ends_with_br(tag): the last child itself
EndsWithBr(ar, x) == ar[x].kids # <<>> /\ IsNamed(ar, ar[x].kids[Len(ar[x].kids)], "br")

(***************************************************************************)
(* header_adapters.  What the regular expressions find in a text is read   *)
(* off the classes of its words.                                           *)
(***************************************************************************)
\* re.search(DATE_PATTERN, text)
HasDate(t) == Classes(t) \cap {"one", "kv", "wrote", "sd"} # {}

\* re.search(TIME_PATTERN, text)
HasTime(t) == Classes(t) \cap {"one", "kv", "sd"} # {}

\* re.search(EMAIL_PATTERN, text)
HasEmail(t) == Classes(t) \cap {"one", "kv", "key"} # {}

\* any(k in text_lower for k in KEYWORDS)
HasKeyword(t) == Classes(t) \cap {"kv"} # {}

\* any(phrase in text_lower for phrase in ACTION_PHRASES)
HasActionPhrase(t) == Classes(t) \cap {"wrote"} # {}

\* text.strip().endswith(":")
EndsWithColon(t) == LET s == Strip(t) IN s # <<>> /\ s[Len(s)].c \in {"one", "wrote"}

\* the KEY_PATTERNS a word matches
KeysOf(c) ==
    IF c = "kv" THEN {"From", "Sent"} ELSE IF c = "key" THEN {"To"} ELSE IF c = "sd" THEN {"Sent"} ELSE {}

\* the KEY_PATTERNS with a match in text
KeysIn(t) == UNION {KeysOf(c) : c \in Classes(t)}

\* min(match.start()) over the KEY_PATTERNS that match (text has one)
FirstKeyPos(t) ==
    LET i == CHOOSE j \in 1..Len(t) : /\ KeysOf(t[j].c) # {}
                                      /\ \A m \in 1..(j - 1) : KeysOf(t[m].c) = {}
    IN TextLen(SubSeq(t, 1, i - 1))

\* any(re.match(r"^\s*" + pattern, first_text) for pattern in KEY_PATTERNS)
StartsWithKey(t) == LET s == LStrip(t) IN s # <<>> /\ KeysOf(s[1].c) # {}

\* BaseHeaderAdapter._get_clean_text(element)
GetCleanText(ar, x) == IF IsString(ar, x) THEN Strip(ar[x].text) ELSE GetTextSpaced(ar, x)

\* BaseHeaderAdapter._has_marked_children(element)
HasMarkedChildren(ar, x) ==
    /\ IsTag(ar, x)
    /\ LET ds == Descendants(ar, x) IN \E j \in 1..Len(ds) : IsTag(ar, ds[j]) /\ ar[ds[j]].attr # ""

\* DividerHeaderAdapter.match(element)
DividerMatch(ar, x) ==
    /\ ~HasMarkedChildren(ar, x)
    /\ LET t == GetCleanText(ar, x) IN Len(t) = 1 /\ t[1].c = "fwd"

\* EndDividerHeaderAdapter.match(element)
EndDividerMatch(ar, x) ==
    /\ ~HasMarkedChildren(ar, x)
    /\ LET t == GetCleanText(ar, x) IN Len(t) = 1 /\ t[1].c = "end"

\* OnelineHeaderAdapter.match(element)
OnelineMatch(ar, x) ==
    /\ ~HasMarkedChildren(ar, x)
    /\ LET t == GetCleanText(ar, x) IN
       /\ ~(TextLen(t) < 10 \/ TextLen(t) > 350)
       /\ ~(CountNewlines(t) > 3)
       /\ \/ HasActionPhrase(t) /\ EndsWithColon(t) /\ (HasDate(t) \/ HasTime(t))
          \/ HasDate(t) /\ HasTime(t) /\ (HasEmail(t) \/ (HasKeyword(t) /\ EndsWithColon(t)))

RECURSIVE SkipBlankBack(_, _)
\* while prev and (isinstance(prev, NavigableString) and not str(prev).strip()): prev = prev.previous_sibling
SkipBlankBack(ar, prev) ==
    IF prev # 0 /\ IsBlank(ar, prev) THEN SkipBlankBack(ar, PreviousSibling(ar, prev)) ELSE prev

\* KeyValueHeaderAdapter.match(element)
KeyValueMatch(ar, x) ==
    /\ ~IsString(ar, x)
    /\ ~HasMarkedChildren(ar, x)
    /\ LET t == GetCleanText(ar, x)
           prev == SkipBlankBack(ar, PreviousSibling(ar, x))
       IN /\ ~(TextLen(t) < 15 \/ TextLen(t) > 1000)
          /\ ~(Cardinality(KeysIn(t)) < 2)
          /\ ~(FirstKeyPos(t) > 50)
          /\ prev # 0 => KeysIn(GetCleanText(ar, prev)) = {}

\* MultipleDivHeaderAdapter.match: has_key of a sibling's text
SiblingHasKey(ar, x) == KeysIn(GetCleanText(ar, x)) # {}

\* MultipleDivHeaderAdapter.match: next_is_datetime of a sibling's text
SiblingIsDatetime(ar, x) ==
    LET t == GetCleanText(ar, x) IN HasDate(t) /\ HasTime(t) /\ HasEmail(t) /\ EndsWithColon(t)

RECURSIVE PrevKeySiblings(_, _)
\* MultipleDivHeaderAdapter.match: the loop over element.previous_sibling
PrevKeySiblings(ar, prev) ==
    IF prev = 0 THEN <<>>
    ELSE IF IsString(ar, prev)
         THEN IF Strip(ar[prev].text) # <<>> THEN <<>>
              ELSE PrevKeySiblings(ar, PreviousSibling(ar, prev))
    ELSE IF ar[prev].name # "div" THEN <<>>
    ELSE IF ar[prev].attr # "" THEN <<>>
    ELSE IF SiblingHasKey(ar, prev) THEN Append(PrevKeySiblings(ar, PreviousSibling(ar, prev)), prev)
    ELSE <<>>

RECURSIVE NextKeySiblings(_, _)
\* MultipleDivHeaderAdapter.match: the loop over element.next_sibling
NextKeySiblings(ar, next_elem) ==
    IF next_elem = 0 THEN <<>>
    ELSE IF IsString(ar, next_elem)
         THEN IF Strip(ar[next_elem].text) # <<>> THEN <<>>
              ELSE NextKeySiblings(ar, NextSibling(ar, next_elem))
    ELSE IF ar[next_elem].name # "div" THEN <<>>
    ELSE IF ar[next_elem].attr # "" THEN <<>>
    ELSE IF SiblingHasKey(ar, next_elem) \/ SiblingIsDatetime(ar, next_elem)
         THEN <<next_elem>> \o NextKeySiblings(ar, NextSibling(ar, next_elem))
    ELSE <<>>

\* the sum of len(t) over the clean texts of a list of elements
TotalLength(ar, elems) == FoldSeq(LAMBDA n, e : n + TextLen(GetCleanText(ar, e)), 0, elems)

\* MultipleDivHeaderAdapter.match(element)
MultipleDivMatch(ar, x) ==
    /\ ~IsString(ar, x)
    /\ ~HasMarkedChildren(ar, x)
    /\ ar[x].name = "div"
    /\ LET t == GetCleanText(ar, x)
           is_datetime_line == HasDate(t) /\ HasTime(t) /\ EndsWithColon(t) /\ HasEmail(t)
           prev_siblings == PrevKeySiblings(ar, PreviousSibling(ar, x))
           siblings_with_keys == prev_siblings \o NextKeySiblings(ar, NextSibling(ar, x))
           first_div == IF prev_siblings # <<>> THEN prev_siblings[1] ELSE x
       IN /\ KeysIn(t) # {} \/ is_datetime_line
          /\ Len(siblings_with_keys) >= 1
          /\ StartsWithKey(Strip(GetCleanText(ar, first_div)))
          /\ ~(1 + Len(siblings_with_keys) > 5)
          /\ ~(TotalLength(ar, <<x>> \o siblings_with_keys) > 600)

\* for elem in elems: elem.decompose()
DecomposeAll(ar, elems) == FoldSeq(Decompose, ar, elems)

RECURSIVE ValueOf(_, _)
\* what Tag.__eq__ and str.__eq__ compare: the name, the attributes and the
\* contents of x, and for a string its characters; not which node it is
ValueOf(ar, x) ==
    [name |-> ar[x].name, attr |-> ar[x].attr,
     text |-> List([i \in 1..Len(ar[x].text) |-> [ar[x].text[i] EXCEPT !.w = 0]]),
     kids |-> List([i \in 1..Len(ar[x].kids) |-> ValueOf(ar, ar[x].kids[i])])]

\* x in elems, for a list of tags: x is one of them or equal to one of them
IsAmong(ar, x, elems) ==
    \E i \in 1..Len(elems) : elems[i] = x \/ ValueOf(ar, elems[i]) = ValueOf(ar, x)

RECURSIVE FirstOfRun(_, _, _, _)
\* MultipleDivHeaderAdapter.mark: first_elem, by the walk back from temp over
\* the tags that are in siblings
FirstOfRun(ar, temp, siblings, first_elem) ==
    IF temp = 0 THEN first_elem
    ELSE IF IsString(ar, temp)
         THEN IF Strip(ar[temp].text) # <<>> THEN first_elem
              ELSE FirstOfRun(ar, PreviousSibling(ar, temp), siblings, first_elem)
    ELSE IF IsAmong(ar, temp, siblings)
         THEN FirstOfRun(ar, PreviousSibling(ar, temp), siblings, temp)
    ELSE first_elem

RECURSIVE RestOfRun(_, _, _, _)
\* MultipleDivHeaderAdapter.mark: all_elements[1:], by the walk from current on
\* over the tags that are the element or in siblings
RestOfRun(ar, current, element, siblings) ==
    IF current = 0 THEN <<>>
    ELSE IF IsString(ar, current)
         THEN IF Strip(ar[current].text) # <<>> THEN <<>>
              ELSE RestOfRun(ar, NextSibling(ar, current), element, siblings)
    ELSE IF IsAmong(ar, current, <<element>> \o siblings)
         THEN <<current>> \o RestOfRun(ar, NextSibling(ar, current), element, siblings)
    ELSE <<>>

\* MultipleDivHeaderAdapter.mark(element), with the _multiline_siblings that match
\* has stored for the element
MultipleDivMark(ar, x, attr_value) ==
    LET siblings == PrevKeySiblings(ar, PreviousSibling(ar, x))
                    \o NextKeySiblings(ar, NextSibling(ar, x))
        first_elem == FirstOfRun(ar, PreviousSibling(ar, x), siblings, x)
        all_elements == <<first_elem>>
                        \o RestOfRun(ar, NextSibling(ar, first_elem), x, siblings)
        texts == List([i \in 1..Len(all_elements) |-> GetCleanText(ar, all_elements[i])])
        combined_text == Join(<<SP>>, texts)
    IN IF siblings = <<>> \/ combined_text = <<>> THEN ar
       ELSE LET a1 == SetString(ar, first_elem, combined_text)
                a2 == [a1 EXCEPT ![first_elem].attr = attr_value]
            IN DecomposeAll(a2, Tail(all_elements))

\* mark adding the clean text to what the element holds, without clearing it
BaseMark_KeepsContents(ar, x, attr_value) ==
    LET text_content == GetCleanText(ar, x) IN
    IF text_content = <<>> \/ ~IsTag(ar, x) THEN ar
    ELSE LET a1 == Append(ar, NewNode("#text", "", text_content))
         IN [AppendChild(a1, x, Len(a1)) EXCEPT ![x].attr = attr_value]

\* BaseHeaderAdapter.mark(element)
BaseMark(ar, x, attr_value) ==
    LET text_content == GetCleanText(ar, x) IN
    IF text_content = <<>> THEN ar
    ELSE IF IsTag(ar, x)
         THEN [SetString(ar, x, text_content) EXCEPT ![x].attr = attr_value]
    ELSE LET a1 == Append(ar, NewNode("div", attr_value, <<>>))
             new_tag == Len(a1)
             a2 == SetString(a1, new_tag, text_content)
             p == ar[x].parent
             my_index == IndexOf(ar[p].kids, x) - 1
         IN Insert(Extract(a2, x), p, my_index, new_tag)

\* any(adapter.match(element) for adapter in DEFAULT_ADAPTERS)
AnyAdapterMatches(ar, x) ==
    \/ DividerMatch(ar, x)
    \/ EndDividerMatch(ar, x)
    \/ MultipleDivMatch(ar, x)
    \/ KeyValueMatch(ar, x)
    \/ OnelineMatch(ar, x)

\* for adapter in DEFAULT_ADAPTERS: if adapter.match(node): adapter.mark(node); break
MarkWithFirstMatch(ar, x) ==
    IF DividerMatch(ar, x) THEN BaseMark(ar, x, "divider")
    ELSE IF EndDividerMatch(ar, x) THEN BaseMark(ar, x, "end_divider")
    ELSE IF MultipleDivMatch(ar, x) THEN MultipleDivMark(ar, x, "quote_header_multiple_block")
    ELSE IF KeyValueMatch(ar, x) THEN BaseMark(ar, x, "quote_header_block")
    ELSE IF OnelineMatch(ar, x) THEN BaseMark(ar, x, "quote_header_oneline")
    ELSE ar

(***************************************************************************)
(* Documents.  A document is written as a term: Tag(name, attr, children)  *)
(* for a tag and Text(words) for a text node, words being word classes," "*)
(* and "\n".  Parse builds the soup bs4.BeautifulSoup(html, "html.parser") *)
(* returns for it, the nodes numbered in document order.                   *)
(***************************************************************************)
Tag(name, attr, kids) == [name |-> name, attr |-> attr, text |-> <<>>, kids |-> kids]

Text(words) == [name |-> "#text", attr |-> "", text |-> words, kids |-> <<>>]

\* the text of the text node numbered id
TextOf(words, id) ==
    List([i \in 1..Len(words) |->
        IF words[i] = " " THEN SP ELSE IF words[i] = "\n" THEN NL ELSE Word(id, words[i])])

RECURSIVE AddForest(_, _, _)
\* the soup with the trees of a list of terms appended below node p
AddForest(ar, p, terms) ==
    FoldSeq(LAMBDA a, t :
                LET id == Len(a) + 1
                    node == [NewNode(t.name, t.attr, TextOf(t.text, id)) EXCEPT !.parent = p]
                    a1 == [Append(a, node) EXCEPT ![p].kids = Append(@, id)]
                IN AddForest(a1, id, t.kids),
            ar, terms)

\* bs4.BeautifulSoup(html, "html.parser")
Parse(terms) == AddForest(<<NewNode("[document]", "", <<>>)>>, Root, terms)

RECURSIVE TreeOf(_, _)
\* the tree below node x as a value: names, attributes, text and order, without identities
TreeOf(ar, x) ==
    [name |-> ar[x].name, attr |-> ar[x].attr, text |-> ar[x].text,
     kids |-> List([i \in 1..Len(ar[x].kids) |-> TreeOf(ar, ar[x].kids[i])])]

(***************************************************************************)
(* HtmlProcessor: the rewrites, each a function from soup to soup.         *)
(***************************************************************************)
SYSTEM_TAGS == {"html", "body", "head", "doctype", "style", "meta", "title", "script", "link", "base"}

DEFAULT_KEEP_TAGS == {"br"}

TABLE_TAGS == {"table", "thead", "tbody", "tr", "td", "th", "tfoot", "caption", "colgroup", "col"}

BLOCK_TAGS ==
    {"p", "h1", "h2", "h3", "h4", "h5", "h6", "ul", "ol", "li", "dl", "dt", "dd", "header",
     "footer", "nav", "section", "article", "aside", "main", "address", "figure", "figcaption",
     "pre", "form", "fieldset", "center", "noscript", "dir", "menu", "details", "summary"}

\* for tag in tags: tag.unwrap()
UnwrapAll(ar, tags) == FoldSeq(Unwrap, ar, tags)

\* HtmlProcessor.clear_system_tags
clear_system_tags(ar) ==
    LET a1 == UnwrapAll(ar, FindAll(ar, "html"))
        a2 == UnwrapAll(a1, FindAll(a1, "body"))
    IN DecomposeAll(a2, SelectSeq(Descendants(a2, Root),
                                  LAMBDA d : IsTag(a2, d) /\ a2[d].name \in SYSTEM_TAGS \ {"html", "body"}))

\* clear_empty_tags: the test of one tag of the list (a destroyed tag has no name and no contents)
IsEmptyTag(ar, tag) ==
    /\ ~(~ar[tag].dead /\ ar[tag].name \in DEFAULT_KEEP_TAGS)
    /\ GetText(ar, tag) = <<>>
    /\ LET ds == Descendants(ar, tag) IN
       ~\E j \in 1..Len(ds) : IsTag(ar, ds[j]) /\ ar[ds[j]].name \in DEFAULT_KEEP_TAGS

\* clear_empty_tags: the for loop over the list soup.find_all() returned
ClearEmptyLoop(ar, tags, ch) ==
    FoldSeq(LAMBDA r, tag :
                IF IsEmptyTag(r.soup, tag) THEN [soup |-> Decompose(r.soup, tag), changed |-> TRUE]
                ELSE r,
            [soup |-> ar, changed |-> ch], tags)

\* an iteration that decomposes nothing and still sets changed
ClearEmptyPass_NeverSettles(ar) == [soup |-> ar, changed |-> TRUE]

\* clear_empty_tags: one iteration of while changed
ClearEmptyPass(ar) == ClearEmptyLoop(ar, FindAllTags(ar), FALSE)

\* for node in nodes: node.extract()
ExtractAll(ar, nodes) == FoldSeq(Extract, ar, nodes)

\* clear_empty_tags: after the loop, every whitespace-only text node is extracted
ExtractBlankStrings(ar) ==
    ExtractAll(ar, SelectSeq(Descendants(ar, Root), LAMBDA d : IsBlank(ar, d)))

\* the attributes other than simple-email-parse-attr a tag of a document may carry
ForeignAttrs == {"class=mail-quote-collapse", "data-type=sender", "data-type=body", "class=other"}

\* clear_attributes, for one tag
ClearedAttr(a) ==
    IF a = "class=mail-quote-collapse" THEN "quote"
    ELSE IF a = "data-type=sender" THEN "sender"
    ELSE IF a = "data-type=body" THEN "body"
    ELSE IF a \in ForeignAttrs THEN ""
    ELSE a

\* the nodes of the tree, as a set
TreeNodes(ar) == LET ds == Descendants(ar, Root) IN {ds[j] : j \in 1..Len(ds)}

\* HtmlProcessor.clear_attributes
clear_attributes(ar) ==
    LET tree == TreeNodes(ar) IN
    List([n \in 1..Len(ar) |->
        IF n \in tree /\ IsTag(ar, n)
        THEN [ar[n] EXCEPT !.attr = ClearedAttr(@)] ELSE ar[n]])

\* HtmlProcessor.simplify_tags
simplify_tags(ar) ==
    LET keep_tags == TABLE_TAGS \cup DEFAULT_KEEP_TAGS \cup {"div", "span", "blockquote"}
        tree == TreeNodes(ar)
    IN
    List([n \in 1..Len(ar) |->
        IF n \in tree /\ IsTag(ar, n) /\ ar[n].name \notin keep_tags
        THEN [ar[n] EXCEPT !.name = IF @ \in BLOCK_TAGS THEN "div" ELSE "span"] ELSE ar[n]])

\* wrap_orphan_text_nodes: if len(sequence) > 1 and has_text and has_span, the sequence
\* is one to wrap
Wrappable(ar, parent, sequence) ==
    LET has_text == \E m \in 1..Len(sequence) : IsString(ar, sequence[m])
        has_span == \E m \in 1..Len(sequence) : IsNamed(ar, sequence[m], "span")
    IN IF Len(sequence) > 1 /\ has_text /\ has_span
       THEN <<[parent |-> parent, sequence |-> sequence]>> ELSE <<>>

\* wrap_orphan_text_nodes: the inner while loop takes one child into the sequence: a
\* blank string is passed over, a string or a span is appended, any other tag ends
\* the sequence (the outer loop then steps over that tag, and over blanks, until the
\* next sequence starts)
GatherSequence(ar, parent, r, child) ==
    IF IsBlank(ar, child) THEN r
    ELSE IF IsTag(ar, child) /\ ar[child].name \in {"br", "div", "blockquote"}
         THEN [found |-> r.found \o Wrappable(ar, parent, r.sequence), sequence |-> <<>>]
    ELSE IF IsString(ar, child) \/ IsNamed(ar, child, "span")
         THEN [r EXCEPT !.sequence = Append(@, child)]
    ELSE [found |-> r.found \o Wrappable(ar, parent, r.sequence), sequence |-> <<>>]

\* wrap_orphan_text_nodes: the two while loops over the children of one parent;
\* the sequences to wrap, each with its parent
SequencesOf(ar, parent) ==
    LET r == FoldSeq(LAMBDA acc, child : GatherSequence(ar, parent, acc, child),
                     [found |-> <<>>, sequence |-> <<>>], ar[parent].kids)
    IN r.found \o Wrappable(ar, parent, r.sequence)

\* wrap_orphan_text_nodes: sequences_to_wrap, over the parents find_all() returned
SequencesToWrap(ar, parents) ==
    FoldSeq(LAMBDA todo, parent : todo \o SequencesOf(ar, parent), <<>>, parents)

\* for elem in elems: p.append(elem)
AppendAll(ar, p, elems) == FoldSeq(LAMBDA a, elem : AppendChild(a, p, elem), ar, elems)

\* for i, elem in enumerate(sequence): parent.insert(insert_index + i, elem.extract())
InsertEach(ar, parent, index, sequence) ==
    FoldSeq(LAMBDA a, i : Insert(Extract(a, sequence[i]), parent, index + i - 1, sequence[i]),
            ar, [i \in 1..Len(sequence) |-> i])

\* wrap_orphan_text_nodes: the body of the second for loop
WrapSequence(ar, parent, sequence) ==
    IF \E m \in 1..Len(sequence) : ar[sequence[m]].parent # parent THEN ar
    ELSE LET insert_index == IndexOf(ar[parent].kids, sequence[1]) - 1
             a1 == Append(ar, NewNode("div", "", <<>>))
             temp_div == Len(a1)
             a2 == AppendAll(a1, temp_div, sequence)
         IN IF AnyAdapterMatches(a2, temp_div) THEN Insert(a2, parent, insert_index, temp_div)
            ELSE InsertEach(a2, parent, insert_index, sequence)

\* wrap_orphan_text_nodes: for parent, sequence in sequences_to_wrap
WrapSequences(ar, todo) ==
    FoldSeq(LAMBDA a, item : WrapSequence(a, item.parent, item.sequence), ar, todo)

\* HtmlProcessor.wrap_orphan_text_nodes
wrap_orphan_text_nodes(ar) == WrapSequences(ar, SequencesToWrap(ar, FindAllTags(ar)))

\* process_headers.add_candidate(node): the list with node added, unless None, blank or seen
AddCandidate(ar, candidates, node) ==
    IF node = 0 \/ (\E m \in 1..Len(candidates) : candidates[m] = node) \/ IsBlank(ar, node)
    THEN candidates ELSE Append(candidates, node)

\* process_headers: the first child of x that is not a <br> and not a blank string, or None
FirstChildSkippingBr(ar, x) ==
    LET ks == ar[x].kids
        ok == {m \in 1..Len(ks) : ~IsNamed(ar, ks[m], "br") /\ ~IsBlank(ar, ks[m])}
    IN IF ok = {} THEN 0 ELSE ks[CHOOSE m \in ok : \A m2 \in ok : m <= m2]

\* process_headers: the candidates one blockquote adds
BlockquoteCandidates(ar, candidates, bq) ==
    LET c1 == AddCandidate(ar, candidates, FirstChildSkippingBr(ar, bq))
        prev_sibling == GetSignificantSibling(ar, bq, "prev", TRUE)
        parent == ar[bq].parent
    IN IF prev_sibling # 0 THEN AddCandidate(ar, c1, prev_sibling)
       ELSE IF parent # 0 /\ ar[parent].name \in {"div", "span"}
                 /\ FirstChildSkippingBr(ar, parent) = bq
            THEN AddCandidate(ar, c1, GetSignificantSibling(ar, parent, "prev", TRUE))
       ELSE c1

\* process_headers: for hr in soup.find_all("hr")
HrCandidates(ar, candidates, hrs) ==
    FoldSeq(LAMBDA c, hr : AddCandidate(ar, c, GetSignificantSibling(ar, hr, "next", TRUE)),
            candidates, hrs)

\* process_headers: for bq in soup.find_all("blockquote")
AllBlockquoteCandidates(ar, candidates, bqs) ==
    FoldSeq(LAMBDA c, bq : BlockquoteCandidates(ar, c, bq), candidates, bqs)

\* process_headers: for tag in soup.find_all(tag_name)
TagCandidates(ar, candidates, tags) ==
    FoldSeq(LAMBDA c, tag : AddCandidate(ar, c, tag), candidates, tags)

\* process_headers.get_depth(node)
GetDepth(ar, node) ==
    IF IsTag(ar, node) THEN Depth(ar, node)
    ELSE IF ar[node].parent # 0 THEN Depth(ar, node) + 1 ELSE 0

\* process_headers: the candidates, deepest first
HeaderCandidates(ar) ==
    LET c1 == HrCandidates(ar, <<>>, FindAll(ar, "hr"))
        c2 == AllBlockquoteCandidates(ar, c1, FindAll(ar, "blockquote"))
        c3 == TagCandidates(ar, c2, FindAll(ar, "div"))
        c4 == TagCandidates(ar, c3, FindAll(ar, "p"))
        c5 == TagCandidates(ar, c4, FindAll(ar, "span"))
    IN SortDeepestFirst(ar, c5, GetDepth)

\* process_headers: the body of the loop over the candidates, for one node
VisitCandidate(ar, node) ==
    IF (IsTag(ar, node) /\ ar[node].dead) \/ ar[node].parent = 0 THEN ar
    ELSE MarkWithFirstMatch(ar, node)

\* process_headers: for node in candidates
MarkCandidates(ar, candidates) == FoldSeq(VisitCandidate, ar, candidates)

\* HtmlProcessor.process_headers
process_headers(ar) == MarkCandidates(ar, HeaderCandidates(ar))

\* unwrap_span: for span in soup.find_all("span"): a marked header becomes a div
RenameHeaderSpans(ar) ==
    LET tree == TreeNodes(ar) IN
    List([n \in 1..Len(ar) |->
        IF n \in tree /\ ar[n].name = "span" /\ IsHeaderAttr(ar[n].attr)
        THEN [ar[n] EXCEPT !.name = "div"] ELSE ar[n]])

\* unwrap_span: the body of the loop over the spans, for one span
UnwrapOneSpan(ar, span) ==
    LET ds == Descendants(ar, span) IN
    IF ar[span].dead THEN ar
    ELSE IF \E j \in 1..Len(ds) : IsNamed(ar, ds[j], "div") THEN Unwrap(ar, span)
    ELSE IF GetText(ar, span) = <<>> /\ ~\E j \in 1..Len(ar[span].kids) : IsTag(ar, ar[span].kids[j])
         THEN Decompose(ar, span)
    ELSE LET a1 == Append(ar, NewNode("#text", "", <<SP>>))
             a2 == InsertBefore(a1, span, Len(a1))
             a3 == Append(a2, NewNode("#text", "", <<SP>>))
             a4 == InsertAfter(a3, span, Len(a3))
         IN Unwrap(a4, span)

\* unwrap_span: for span in spans
UnwrapSpans(ar, spans) == FoldSeq(UnwrapOneSpan, ar, spans)

\* HtmlProcessor.unwrap_span
unwrap_span(ar) ==
    LET a1 == RenameHeaderSpans(ar)
    IN UnwrapSpans(a1, SortDeepestFirst(a1, FindAll(a1, "span"), Depth))

\* soup.find_all(attrs={"simple-email-parse-attr": value})
FindAllMarked(ar, value) == SelectSeq(Descendants(ar, Root), LAMBDA d : IsTag(ar, d) /\ ar[d].attr = value)

\* x.find(): the first tag below x, or None
FirstTagBelow(ar, x) ==
    LET ds == SelectSeq(Descendants(ar, x), LAMBDA d : IsTag(ar, d)) IN IF ds = <<>> THEN 0 ELSE ds[1]

\* process_forwarded_messages: the divider is followed by a one-line header
IsForwardDivider(ar, divider) ==
    LET next_elem == GetSignificantSibling(ar, divider, "next", TRUE) IN
    /\ ~ar[divider].dead
    /\ next_elem # 0
    /\ IsTag(ar, next_elem)
    /\ \/ ar[next_elem].attr = "quote_header_oneline"
       \/ /\ ar[next_elem].name = "div"
          /\ FirstTagBelow(ar, next_elem) # 0
          /\ ar[FirstTagBelow(ar, next_elem)].attr = "quote_header_oneline"

\* process_forwarded_messages: content_nodes and end_marker, walking from curr along
\* next_sibling up to the first tag marked end_divider
SiblingsUntilEnd(ar, curr) ==
    IF curr = 0 THEN [content_nodes |-> <<>>, end_marker |-> 0]
    ELSE LET ks == ar[ar[curr].parent].kids
             i == IndexOf(ks, curr)
             ends == {j \in i..Len(ks) : IsTag(ar, ks[j]) /\ ar[ks[j]].attr = "end_divider"}
         IN IF ends = {} THEN [content_nodes |-> SubSeq(ks, i, Len(ks)), end_marker |-> 0]
            ELSE LET e == CHOOSE j \in ends : \A m \in ends : j <= m
                 IN [content_nodes |-> SubSeq(ks, i, e - 1), end_marker |-> ks[e]]

\* process_forwarded_messages: what is done with a divider that is followed by a header;
\* decomposing the markers is kept apart
WrapForwarded(ar, divider) ==
    LET found == SiblingsUntilEnd(ar, NextSibling(ar, divider))
        a1 == Append(ar, NewNode("blockquote", "", <<>>))
        bq == Len(a1)
        a2 == InsertBefore(a1, divider, bq)
    IN AppendAll(a2, bq, found.content_nodes)

\* process_forwarded_messages: divider.decompose(); if end_marker: end_marker.decompose()
DecomposeMarkers(ar, divider, end_marker) ==
    LET a1 == Decompose(ar, divider) IN IF end_marker # 0 THEN Decompose(a1, end_marker) ELSE a1

\* process_forwarded_messages: one iteration of while changed
ForwardedPass(ar) ==
    LET dividers == FindAllMarked(ar, "divider")
        hits == {m \in 1..Len(dividers) : IsForwardDivider(ar, dividers[m])}
    IN IF hits = {} THEN [soup |-> ar, changed |-> FALSE]
       ELSE LET divider == dividers[CHOOSE m \in hits : \A m2 \in hits : m <= m2]
                end_marker == SiblingsUntilEnd(ar, NextSibling(ar, divider)).end_marker
            IN [soup |-> DecomposeMarkers(WrapForwarded(ar, divider), divider, end_marker),
                changed |-> TRUE]

\* improve_blockquote: <div simple-email-parse-attr="quote"> becomes <blockquote>
RenameQuoteDivs(ar) ==
    LET tree == TreeNodes(ar) IN
    List([n \in 1..Len(ar) |->
        IF n \in tree /\ ar[n].name = "div" /\ ar[n].attr = "quote"
        THEN [ar[n] EXCEPT !.name = "blockquote", !.attr = ""] ELSE ar[n]])

\* for sibling in parent.contents: every sibling but x is removable
CanUnwrapAround(ar, parent, x) ==
    \A m \in 1..Len(ar[parent].kids) : ar[parent].kids[m] = x \/ IsRemovableNode(ar, ar[parent].kids[m])

\* for s in siblings_to_remove: s.extract(); parent.unwrap()
UnwrapAround(ar, parent, x) == Unwrap(ExtractAll(ar, Without(ar[parent].kids, x)), parent)

\* _unwrap_quotes: the body of the for loop, for one blockquote
UnwrapQuote(ar, bq) ==
    LET parent == ar[bq].parent IN
    IF parent = 0 \/ ar[parent].name \notin {"div", "blockquote"} THEN [soup |-> ar, changed |-> FALSE]
    ELSE IF CanUnwrapAround(ar, parent, bq) THEN [soup |-> UnwrapAround(ar, parent, bq), changed |-> TRUE]
    ELSE [soup |-> ar, changed |-> FALSE]

\* a loop over a list whose body reports whether it changed the soup: the soup after
\* the loop, and whether any turn changed it
FoldChanged(body(_, _), ar, nodes, ch) ==
    FoldSeq(LAMBDA r, node : LET b == body(r.soup, node)
                             IN [soup |-> b.soup, changed |-> r.changed \/ b.changed],
            [soup |-> ar, changed |-> ch], nodes)

\* _unwrap_quotes: the for loop over the list find_all("blockquote") returned
UnwrapQuotesLoop(ar, bqs, ch) == FoldChanged(UnwrapQuote, ar, bqs, ch)

\* _unwrap_quotes: one iteration of while changed
UnwrapQuotesPass(ar) == UnwrapQuotesLoop(ar, FindAll(ar, "blockquote"), FALSE)

RECURSIVE SkipRemovable(_, _)
\* improve_blockquote: while next_elem: if removable: next_elem = next_elem.next_sibling
SkipRemovable(ar, next_elem) ==
    IF next_elem # 0 /\ IsRemovableNode(ar, next_elem) THEN SkipRemovable(ar, NextSibling(ar, next_elem))
    ELSE next_elem

\* improve_blockquote: the body of the second loop over the headers, for one header
MoveHeaderIntoQuote(ar, header) ==
    IF ar[header].dead THEN ar
    ELSE LET next_elem == SkipRemovable(ar, NextSibling(ar, header)) IN
         IF ~IsNamed(ar, next_elem, "blockquote") THEN ar
         ELSE LET bq_children == SelectSeq(ar[next_elem].kids, LAMBDA c : ~IsBlank(ar, c)) IN
              IF bq_children = <<>> THEN Insert(ar, next_elem, 0, header)
              ELSE IF IsTag(ar, bq_children[1]) /\ IsHeaderAttr(ar[bq_children[1]].attr) THEN ar
              ELSE Insert(ar, next_elem, 0, header)

\* improve_blockquote: the second loop over the headers
MoveHeadersIntoQuotes(ar, hs) == FoldSeq(MoveHeaderIntoQuote, ar, hs)

\* unwrap_div._wrap_orphans_in_container: new_div before orphans[0], the orphans moved into it
WrapOrphans(ar, orphans) ==
    LET a1 == Append(ar, NewNode("div", "", <<>>))
        new_div == Len(a1)
    IN AppendAll(InsertBefore(a1, orphans[1], new_div), new_div, orphans)

\* unwrap_div._wrap_orphans_in_container: the body of the loop over the children
WrapOrphansStep(r, child) ==
    IF IsStructuralBlock(r.soup, child)
    THEN IF r.orphans # <<>>
         THEN [soup |-> WrapOrphans(r.soup, r.orphans), orphans |-> <<>>, changed |-> TRUE]
         ELSE r
    ELSE IF IsBlank(r.soup, child) /\ r.orphans = <<>> THEN r
    ELSE [r EXCEPT !.orphans = Append(@, child)]

\* unwrap_div._wrap_orphans_in_container(container)
WrapOrphansLoop(ar, container) ==
    LET r == FoldSeq(WrapOrphansStep, [soup |-> ar, orphans |-> <<>>, changed |-> FALSE],
                     ar[container].kids)
    IN IF r.orphans # <<>> THEN [soup |-> WrapOrphans(r.soup, r.orphans), changed |-> TRUE]
       ELSE [soup |-> r.soup, changed |-> r.changed]

\* unwrap_div: for container in [soup] + soup.find_all("blockquote")
WrapOrphansInContainers(ar, containers, ch) == FoldChanged(WrapOrphansLoop, ar, containers, ch)

\* a new <br> appended to x
AppendBr(ar, x) == LET a1 == Append(ar, NewNode("br", "", <<>>)) IN AppendChild(a1, x, Len(a1))

\* a new <br> inserted as the first child of x
PrependBr(ar, x) == LET a1 == Append(ar, NewNode("br", "", <<>>)) IN Insert(a1, x, 0, Len(a1))

\* the backward merge with div decomposed while its children are still in it
MergeIntoPrev_DropsDiv(ar, div, prev) == Decompose(ar, div)

\* unwrap_div: backward merge of div into the div before it
MergeIntoPrev(ar, div, prev) ==
    LET a1 == IF EndsWithBrDeep(ar, prev) \/ StartsWithBr(ar, div) THEN ar ELSE AppendBr(ar, prev)
    IN Decompose(AppendAll(a1, prev, ar[div].kids), div)

\* unwrap_div: the node before div is pulled into it
AbsorbPrev(ar, div, prev) ==
    LET needs_br == ~IsNamed(ar, prev, "br") /\ ~StartsWithBr(ar, div)
        a1 == Extract(ar, prev)
        a2 == IF needs_br THEN PrependBr(a1, div) ELSE a1
    IN Insert(a2, div, 0, prev)

\* unwrap_div: the node after div is pulled into it
AbsorbNext(ar, div, next_node) ==
    LET needs_br == ~IsNamed(ar, next_node, "br") /\ ~EndsWithBrDeep(ar, div)
        a1 == Extract(ar, next_node)
        a2 == IF needs_br THEN AppendBr(a1, div) ELSE a1
    IN AppendChild(a2, div, next_node)

\* unwrap_div: the body of the loop over the divs, for one div
SimplifyDiv(ar, div) ==
    LET prev == GetSignificantSibling(ar, div, "prev", FALSE)
        next_node == GetSignificantSibling(ar, div, "next", FALSE)
        same == [soup |-> ar, changed |-> FALSE]
    IN IF ar[div].dead THEN same
       ELSE IF IsQuoteHeader(ar, div) THEN same
       ELSE IF HasStructuralChildren(ar, div) THEN [soup |-> Unwrap(ar, div), changed |-> TRUE]
       ELSE IF prev # 0 /\ IsNamed(ar, prev, "div") /\ ~IsQuoteHeader(ar, prev)
            THEN [soup |-> MergeIntoPrev(ar, div, prev), changed |-> TRUE]
       ELSE IF prev # 0 /\ ~IsQuoteHeader(ar, prev) /\ ~IsStructuralBlock(ar, prev)
            THEN [soup |-> AbsorbPrev(ar, div, prev), changed |-> TRUE]
       ELSE IF next_node # 0 /\ ~IsQuoteHeader(ar, next_node) /\ ~IsStructuralBlock(ar, next_node)
            THEN [soup |-> AbsorbNext(ar, div, next_node), changed |-> TRUE]
       ELSE same

\* unwrap_div: for div in divs
SimplifyDivs(ar, divs, ch) == FoldChanged(SimplifyDiv, ar, divs, ch)

\* unwrap_div: one iteration of while changed and loop_counter < MAX_LOOPS
UnwrapDivPass(ar) ==
    LET wrapped == WrapOrphansInContainers(ar, <<Root>> \o FindAll(ar, "blockquote"), FALSE)
    IN IF wrapped.changed THEN wrapped
       ELSE SimplifyDivs(ar, SortDeepestFirst(ar, FindAll(ar, "div"), Depth), FALSE)

MAX_LOOPS == 100

\* the first child of x that is not a blank string is y
IsFirstChild(ar, x, y) ==
    LET ks == SelectSeq(ar[x].kids, LAMBDA c : ~IsBlank(ar, c)) IN ks # <<>> /\ ks[1] = y

\* x.next_sibling, its next_sibling, and so on
FollowingSiblings(ar, x) ==
    LET p == ar[x].parent IN
    IF p = 0 THEN <<>> ELSE SubSeq(ar[p].kids, IndexOf(ar[p].kids, x) + 1, Len(ar[p].kids))

\* ensure_blockquote with a loop that does not stop at the next header: every
\* sibling that follows bq is appended
SwallowFollowing_PastHeaders(ar, bq) == AppendAll(ar, bq, FollowingSiblings(ar, bq))

\* ensure_blockquote: while True: bq.append(bq.next_sibling), up to the next header:
\* the siblings that follow bq, as far as the first header, are appended in order
SwallowFollowing(ar, bq) ==
    LET following == FollowingSiblings(ar, bq)
        stops == {j \in 1..Len(following) :
                     IsTag(ar, following[j]) /\ IsHeaderAttr(ar[following[j]].attr)}
        last == IF stops = {} THEN Len(following)
                ELSE (CHOOSE j \in stops : \A m \in stops : j <= m) - 1
    IN AppendAll(ar, bq, SubSeq(following, 1, last))

\* ensure_blockquote: the body of the loop, for one header
EnsureQuoteAround(ar, header) ==
    LET parent == ar[header].parent IN
    IF ar[header].dead \/ parent = 0 THEN ar
    ELSE IF ar[parent].name = "blockquote" /\ IsFirstChild(ar, parent, header) THEN ar
    ELSE LET a1 == Append(ar, NewNode("blockquote", "", <<>>))
             bq == Len(a1)
         IN SwallowFollowing(AppendChild(InsertBefore(a1, header, bq), bq, header), bq)

\* ensure_blockquote: for header in headers
EnsureQuotes(ar, hs) == FoldSeq(EnsureQuoteAround, ar, hs)

\* HtmlProcessor.ensure_blockquote
ensure_blockquote(ar) == EnsureQuotes(ar, FindAllHeaders(ar))

\* nest_neighboring_quotes: the body of the loop, for one quote
NestQuote(ar, quote) ==
    LET prev == GetSignificantSibling(ar, quote, "prev", FALSE) IN
    IF ar[quote].dead THEN ar
    ELSE IF prev # 0 /\ IsNamed(ar, prev, "blockquote")
         THEN AppendAll(ar, prev, <<quote>> \o FollowingSiblings(ar, quote))
    ELSE ar

\* nest_neighboring_quotes: for quote in reversed(quotes)
NestQuotes(ar, quotes) == FoldSeq(NestQuote, ar, quotes)

\* reversed(list)
Reversed(s) == List([i \in 1..Len(s) |-> s[Len(s) + 1 - i]])

\* HtmlProcessor.nest_neighboring_quotes
nest_neighboring_quotes(ar) == NestQuotes(ar, Reversed(FindAll(ar, "blockquote")))

RECURSIVE TargetDivBefore(_, _)
\* move_remnants: the walk back from quote.previous_sibling to a div that is not a header
TargetDivBefore(ar, prev) ==
    IF prev = 0 THEN 0
    ELSE IF IsNamed(ar, prev, "div") THEN (IF ~IsQuoteHeader(ar, prev) THEN prev ELSE 0)
    ELSE IF IsBlank(ar, prev) THEN TargetDivBefore(ar, PreviousSibling(ar, prev))
    ELSE 0

\* move_remnants: if target_div.contents and not ends_with_br(target_div): append a <br>
BrIfNeeded(ar, target_div) ==
    IF ar[target_div].kids # <<>> /\ ~EndsWithBr(ar, target_div) THEN AppendBr(ar, target_div) ELSE ar

\* move_remnants with target_div.append(node) that does not take the node out of
\* the place it had: the node is moved and left behind
MoveRemnant_LeftBehind(ar, target_div, node) ==
    IF IsNamed(ar, node, "div")
    THEN LET a1 == Extract(ar, node) IN
         IF a1[node].kids = <<>> THEN a1
         ELSE AppendAll(BrIfNeeded(a1, target_div), target_div, a1[node].kids)
    ELSE LET a1 == IF IsNamed(ar, node, "br") THEN ar ELSE BrIfNeeded(ar, target_div)
         IN [a1 EXCEPT ![target_div].kids = Append(@, node), ![node].parent = target_div]

\* move_remnants: the body of the loop over the remnants, for one node
MoveRemnant(ar, target_div, node) ==
    LET a1 == Extract(ar, node) IN
    IF IsNamed(a1, node, "div")
    THEN IF a1[node].kids = <<>> THEN a1
         ELSE AppendAll(BrIfNeeded(a1, target_div), target_div, a1[node].kids)
    ELSE IF IsNamed(a1, node, "br") THEN AppendChild(a1, target_div, node)
    ELSE AppendChild(BrIfNeeded(a1, target_div), target_div, node)

\* move_remnants: for node in remnants
MoveRemnantsLoop(ar, target_div, remnants) ==
    FoldSeq(LAMBDA a, node : MoveRemnant(a, target_div, node), ar, remnants)

RECURSIVE MoveRemnantsIn(_, _)
\* move_remnants that deals with the level of curr_container and does not go
\* down into the quote
MoveRemnantsIn_OneLevel(ar, curr_container) ==
    LET bqs == SelectSeq(ar[curr_container].kids, LAMBDA c : IsNamed(ar, c, "blockquote")) IN
    IF bqs = <<>> THEN ar
    ELSE LET quote == bqs[1]
             found == TargetDivBefore(ar, PreviousSibling(ar, quote))
             a1 == IF found # 0 THEN ar
                   ELSE LET b == Append(ar, NewNode("div", "", <<>>)) IN InsertBefore(b, quote, Len(b))
             target_div == IF found # 0 THEN found ELSE Len(a1)
             remnants == FollowingSiblings(a1, quote)
         IN IF remnants = <<>> THEN a1
            ELSE MoveRemnantsLoop(BrIfNeeded(a1, target_div), target_div, remnants)

\* move_remnants: the while True loop, from curr_container down
MoveRemnantsIn(ar, curr_container) ==
    LET bqs == SelectSeq(ar[curr_container].kids, LAMBDA c : IsNamed(ar, c, "blockquote")) IN
    IF bqs = <<>> THEN ar
    ELSE LET quote == bqs[1]
             found == TargetDivBefore(ar, PreviousSibling(ar, quote))
             a1 == IF found # 0 THEN ar
                   ELSE LET b == Append(ar, NewNode("div", "", <<>>)) IN InsertBefore(b, quote, Len(b))
             target_div == IF found # 0 THEN found ELSE Len(a1)
             remnants == FollowingSiblings(a1, quote)
             a2 == IF remnants = <<>> THEN a1
                   ELSE MoveRemnantsLoop(BrIfNeeded(a1, target_div), target_div, remnants)
         IN MoveRemnantsIn(a2, quote)

\* HtmlProcessor.move_remnants
move_remnants(ar) == MoveRemnantsIn(ar, Root)

\* regex.sub: the text without the characters at the positions gone holds of
DropAt(s, gone(_)) ==
    FoldSeq(LAMBDA out, i : IF gone(i) THEN out ELSE Append(out, s[i]), <<>>,
            [i \in 1..Len(s) |-> i])

\* space_regex.sub(" ", text): a run of spaces becomes one space
CollapseSpaces(s) == DropAt(s, LAMBDA i : s[i] = SP /\ i < Len(s) /\ s[i + 1] = SP)

\* newline_space_regex.sub("\n", text): the spaces next to a newline go
TrimAroundNewlines(s) ==
    DropAt(s, LAMBDA i :
        /\ s[i] = SP
        /\ \/ \E j \in (i + 1)..Len(s) : s[j] = NL /\ \A m \in i..j - 1 : s[m] = SP
           \/ \E j \in 1..(i - 1) : s[j] = NL /\ \A m \in (j + 1)..i : s[m] = SP)

\* multi_newline_regex.sub("\n\n", text): a run of newlines keeps two of them
CollapseNewlines(s) ==
    DropAt(s, LAMBDA i : i > 2 /\ s[i] = NL /\ s[i - 1] = NL /\ s[i - 2] = NL)

\* convert_br_to_newlines: what is done to the text of one new string
NormalizeText(s) == CollapseNewlines(TrimAroundNewlines(CollapseSpaces(s)))

\* convert_br_to_newlines: if buffer: new_contents.append(NavigableString(buffer))
Flush(buffer) == IF buffer # <<>> THEN <<[tag |-> 0, text |-> buffer]>> ELSE <<>>

\* convert_br_to_newlines: new_contents, an item being a kept tag or the text of a new string
NewContents(ar, children, buffer) ==
    LET r == FoldSeq(LAMBDA acc, child :
                         IF IsNamed(ar, child, "br") THEN [acc EXCEPT !.buffer = @ \o <<NL>>]
                         ELSE IF IsString(ar, child) THEN [acc EXCEPT !.buffer = @ \o ar[child].text]
                         ELSE [items |-> acc.items \o Flush(acc.buffer) \o <<[tag |-> child, text |-> <<>>]>>,
                               buffer |-> <<>>],
                     [items |-> <<>>, buffer |-> buffer], children)
    IN r.items \o Flush(r.buffer)

\* convert_br_to_newlines: final_contents appended to the cleared container
AppendItems(ar, container, items) ==
    FoldSeq(LAMBDA a, item :
                IF item.tag # 0 THEN AppendChild(a, container, item.tag)
                ELSE IF NormalizeText(item.text) = <<>> THEN a
                ELSE LET a1 == Append(a, NewNode("#text", "", NormalizeText(item.text)))
                     IN AppendChild(a1, container, Len(a1)),
            ar, items)

\* convert_br_to_newlines: the body of the loop, for one container
ConvertContainer(ar, container) ==
    IF ar[container].dead THEN ar
    ELSE AppendItems(Clear(ar, container), container, NewContents(ar, ar[container].kids, <<>>))

\* convert_br_to_newlines: for container in containers
ConvertContainers(ar, containers) == FoldSeq(ConvertContainer, ar, containers)

\* HtmlProcessor.convert_br_to_newlines
convert_br_to_newlines(ar) ==
    ConvertContainers(ar, SelectSeq(Descendants(ar, Root),
        LAMBDA d : IsTag(ar, d) /\ ar[d].name \in {"div", "blockquote", "p", "li", "td", "th"}))

(***************************************************************************)
(* JsonProcessor.extract_messages.  A record is header_str (has_header is  *)
(* FALSE when it is None) and text.                                        *)
(***************************************************************************)
\* _extract_messages_recursive: header_elem, the first child tag marked quote_header_*, or None
HeaderElem(ar, element) ==
    LET hs == SelectSeq(ar[element].kids, LAMBDA c : IsTag(ar, c) /\ IsHeaderAttr(ar[c].attr)) IN
    IF ar[element].name = "blockquote" /\ hs # <<>> THEN hs[1] ELSE 0

\* text_parts with the nested blockquote rendered into the text of the message around
\* it as well
TextPart_KeepsQuotes(ar, child) ==
    IF IsTag(ar, child)
    THEN IF Strip(DecodeContents(ar, child)) # <<>> THEN <<DecodeContents(ar, child)>> ELSE <<>>
    ELSE IF Strip(ar[child].text) # <<>> THEN <<Strip(ar[child].text)>> ELSE <<>>

\* _extract_messages_recursive: what one child adds to text_parts
TextPart(ar, child) ==
    IF IsTag(ar, child)
    THEN IF ar[child].name = "blockquote" THEN <<>>
         ELSE IF Strip(DecodeContents(ar, child)) # <<>> THEN <<DecodeContents(ar, child)>> ELSE <<>>
    ELSE IF Strip(ar[child].text) # <<>> THEN <<Strip(ar[child].text)>> ELSE <<>>

\* _extract_messages_recursive: text_parts
TextParts(ar, children) == FoldSeq(LAMBDA parts, child : parts \o TextPart(ar, child), <<>>, children)

RECURSIVE ExtractMessagesRecursive(_, _)
RECURSIVE ExtractEach(_, _)
\* the records of the nested quotes with those of the last quote first
ExtractEach_LastFirst(ar, bqs) ==
    FoldSeq(LAMBDA found, bq : ExtractMessagesRecursive(ar, bq) \o found, <<>>, bqs)

\* for bq in nested_blockquotes: messages.extend(self._extract_messages_recursive(bq))
ExtractEach(ar, bqs) ==
    FoldSeq(LAMBDA found, bq : found \o ExtractMessagesRecursive(ar, bq), <<>>, bqs)

\* JsonProcessor._extract_messages_recursive(element)
ExtractMessagesRecursive(ar, element) ==
    LET header_elem == HeaderElem(ar, element)
        children == Without(ar[element].kids, header_elem)
        nested_blockquotes == SelectSeq(children, LAMBDA c : IsTag(ar, c) /\ ar[c].name = "blockquote")
        message == [has_header |-> header_elem # 0,
                    header_str |-> IF header_elem # 0 THEN GetTextSpaced(ar, header_elem) ELSE <<>>,
                    text |-> Join(<<NL>>, TextParts(ar, children))]
    IN <<message>> \o ExtractEach(ar, nested_blockquotes)

\* JsonProcessor.extract_messages
extract_messages(ar) == ExtractMessagesRecursive(ar, Root)

(***************************************************************************)
(* JsonProcessor: header strings.  For parsing, a header string is spelled *)
(* out as a sequence of pieces: a date in one of the notations             *)
(* _parse_datetime knows, a key (From:, Sent:, ...), an e-mail address, a  *)
(* name, the phrase "Вы писали", a plain word.  A piece of kind t carries  *)
(* in s a string (the key, AM/PM, the bracketing of an address) and, for a *)
(* date, the numbers its digit groups spell; month is the entry of         *)
(* MONTH_MAP for a month written as a word, 0 when the word has none.      *)
(*   numeric   21.09.2023, 16:13                                           *)
(*   ru_v      15 апр. 2022 г. в 20:47                                     *)
(*   en_ampm   May 08, 2024 1:34 PM                                        *)
(*   ru_sec    8 мая 2024 г., 13:55:58 +03:00                              *)
(*   long      14 мая 2024, 17:35 +03:00                                   *)
(*   dateonly  14.05.2024                                                  *)
(***************************************************************************)
Piece(t, s) ==
    [t |-> t, s |-> s, day |-> 0, month |-> 0, year |-> 0, hour |-> 0, minute |-> 0,
     second |-> 0, has_tz |-> FALSE, tz_sign |-> 1, tz_hours |-> 0, tz_mins |-> 0]

\* a date piece without an offset
DatePiece(t, day, month, year, hour, minute, second, am_pm) ==
    [t |-> t, s |-> am_pm, day |-> day, month |-> month, year |-> year, hour |-> hour,
     minute |-> minute, second |-> second, has_tz |-> FALSE, tz_sign |-> 1, tz_hours |-> 0, tz_mins |-> 0]

\* the same followed by an offset such as +03:00
WithOffset(p, sign, tz_hours, tz_mins) ==
    [p EXCEPT !.has_tz = TRUE, !.tz_sign = sign, !.tz_hours = tz_hours, !.tz_mins = tz_mins]

\* the date notations, in the order _parse_datetime tries its patterns
DateNotations == {"numeric", "ru_v", "en_ampm", "ru_sec", "long", "dateonly"}

\* calendar.isleap(year)
IsLeap(year) == year % 4 = 0 /\ (year % 100 # 0 \/ year % 400 = 0)

\* datetime._days_in_month(year, month), month in 1..12
DaysInMonth(year, month) ==
    IF month = 2 THEN (IF IsLeap(year) THEN 29 ELSE 28)
    ELSE IF month \in {4, 6, 9, 11} THEN 30 ELSE 31

\* the years the header strings of the model are dated in
Years == {2023, 2024}

\* the first of them: days are counted from its 1 January
EpochYear == CHOOSE y \in Years : \A z \in Years : y <= z

RECURSIVE DaysBeforeYear(_)
\* the days from 1 January EpochYear to 1 January year
DaysBeforeYear(year) ==
    IF year <= EpochYear THEN 0
    ELSE DaysBeforeYear(year - 1) + (IF IsLeap(year - 1) THEN 366 ELSE 365)

RECURSIVE DaysBeforeMonth(_, _)
\* datetime._days_before_month(year, month)
DaysBeforeMonth(year, month) ==
    IF month <= 1 THEN 0 ELSE DaysBeforeMonth(year, month - 1) + DaysInMonth(year, month - 1)

\* what a call returns: a value, or the exception it raised
Returned(v) == [raised |-> FALSE, value |-> v]

Raised == [raised |-> TRUE, value |-> NoneDT]

\* datetime.datetime(year, month, day, hour, minute, second): ValueError when a
\* field is out of range
NewDatetime(year, month, day, hour, minute, second) ==
    IF /\ year \in 1..9999
       /\ month \in 1..12
       /\ day >= 1 /\ day <= DaysInMonth(year, month)
       /\ hour \in 0..23 /\ minute \in 0..59 /\ second \in 0..59
    THEN Returned([has |-> TRUE,
                   wall |-> (DaysBeforeYear(year) + DaysBeforeMonth(year, month) + day - 1) * Day
                            + hour * Hour + minute * Minute + (second * Minute) \div 60,
                   aware |-> FALSE, off |-> 0])
    ELSE Raised

\* dt.replace(tzinfo=datetime.timezone(offset)) for the offset a piece spells:
\* timezone() raises ValueError unless the offset is strictly within 24 hours
ReplaceTzinfo(r, p) ==
    IF r.raised \/ ~p.has_tz THEN r
    ELSE LET offset == p.tz_sign * (p.tz_hours * 60 + p.tz_mins) IN
         IF offset <= -(24 * 60) \/ offset >= 24 * 60 THEN Raised
         ELSE Returned([r.value EXCEPT !.aware = TRUE, !.off = offset * Minute])

\* re.search(pattern, date_str) for the pattern of a notation: the first piece
\* the pattern matches, or the empty list
SearchDate(date_str, notations) == SelectSeq(date_str, LAMBDA p : p.t \in notations)

\* hour_int of the AM/PM pattern
HourOfClock(hour, am_pm) ==
    IF am_pm = "PM" /\ hour # 12 THEN hour + 12
    ELSE IF am_pm = "AM" /\ hour = 12 THEN 0
    ELSE hour

\* JsonProcessor._parse_datetime(date_str)
parse_datetime(date_str) ==
    LET m1 == SearchDate(date_str, {"numeric"})
        m2 == SearchDate(date_str, {"ru_v"})
        m3 == SearchDate(date_str, {"en_ampm"})
        m4 == SearchDate(date_str, {"ru_sec"})
        m5 == SearchDate(date_str, {"long"})
        m6 == SearchDate(date_str, {"numeric", "dateonly"})
    IN  IF date_str = <<>> THEN Returned(NoneDT)
        ELSE IF m1 # <<>>
             THEN NewDatetime(m1[1].year, m1[1].month, m1[1].day, m1[1].hour, m1[1].minute, 0)
        ELSE IF m2 # <<>> /\ m2[1].month # 0
             THEN NewDatetime(m2[1].year, m2[1].month, m2[1].day, m2[1].hour, m2[1].minute, 0)
        ELSE IF m3 # <<>> /\ m3[1].month # 0
             THEN NewDatetime(m3[1].year, m3[1].month, m3[1].day,
                              HourOfClock(m3[1].hour, m3[1].s), m3[1].minute, 0)
        ELSE IF m4 # <<>> /\ m4[1].month # 0
             THEN ReplaceTzinfo(NewDatetime(m4[1].year, m4[1].month, m4[1].day,
                                            m4[1].hour, m4[1].minute, m4[1].second), m4[1])
        ELSE IF m5 # <<>> /\ m5[1].month # 0
             THEN ReplaceTzinfo(NewDatetime(m5[1].year, m5[1].month, m5[1].day,
                                            m5[1].hour, m5[1].minute, 0), m5[1])
        ELSE IF m6 # <<>>
             THEN NewDatetime(m6[1].year, m6[1].month, m6[1].day, 0, 0, 0)
        ELSE Returned(NoneDT)

\* a key of a block header: From (From, От), Sent (Sent, Date, Отправлено, Дата),
\* To (To, Кому), Subject (Subject, Тема), Cc (Cc, Копия), with its colon
Key(name) == Piece("key", name)

\* an e-mail address standing bare, and one in <...> or [...]
Email(address) == Piece("email", address)

AngleEmail(address) == Piece("angle_email", address)

\* a word that is none of the above
Other(text) == Piece("word", text)

\* the phrase "Вы писали" and the following space
YouWrote == Piece("youwrote", "")

\* the word "от" / "from" that may stand between the time and the name
FromWord == Piece("from_word", "")

\* Contact(email=email, name=name); name = <<>> is None
Contact(email, name) == [has |-> TRUE, email |-> email, name |-> name]

\* None where a Contact is expected
NoContact == [has |-> FALSE, email |-> "", name |-> <<>>]

\* Header(from_=from_, sent=sent, to=to, subject=subject); subject = <<>> is None
Header(from_, sent, to, subject) ==
    [has |-> TRUE, from_ |-> from_, sent |-> sent, to |-> to, subject |-> subject]

\* None where a Header is expected
NoHeader == [has |-> FALSE, from_ |-> NoContact, sent |-> NoneDT, to |-> NoContact, subject |-> <<>>]

\* Message(header=header, text=text)
Message(header, text) ==
    [hdr |-> header.has, sent |-> header.sent, text |-> text,
     from_ |-> header.from_, to |-> header.to, subject |-> header.subject]

\* the index of the first element of s, at position lo or later, that satisfies
\* test; 0 when there is none
FirstFrom(s, lo, test(_)) ==
    LET found == {i \in lo..Len(s) : test(s[i])} IN
    IF found = {} THEN 0 ELSE CHOOSE i \in found : \A j \in found : i <= j

IsEmailPiece(p) == p.t \in {"email", "angle_email"}

\* re.sub(email_pattern, "", name): a bare address goes, of a bracketed one the
\* brackets stay
WithoutEmails(s) ==
    LET kept == SelectSeq(s, LAMBDA p : p.t # "email") IN
    List([i \in 1..Len(kept) |-> IF kept[i].t = "angle_email" THEN Other("<>") ELSE kept[i]])

\* JsonProcessor._parse_contact(contact_str)
parse_contact(contact_str) ==
    LET named == FirstFrom(contact_str, 2, LAMBDA p : p.t = "angle_email")
        bracketed == FirstFrom(contact_str, 1, LAMBDA p : p.t = "angle_email")
        anywhere == FirstFrom(contact_str, 1, IsEmailPiece)
    IN  IF contact_str = <<>> THEN NoContact
        ELSE IF named # 0
             THEN Contact(contact_str[named].s, WithoutEmails(SubSeq(contact_str, 1, named - 1)))
        ELSE IF bracketed # 0 THEN Contact(contact_str[bracketed].s, <<>>)
        ELSE IF anywhere # 0
             THEN Contact(contact_str[anywhere].s, SubSeq(contact_str, 1, anywhere - 1))
        ELSE NoContact

\* re.search(key\s*:\s*(.+?)(?=\s+stop\s*:|$), header_str).group(1): what follows the
\* first key of the name, up to the next key that ends the field or to the end
\* of the string; the empty list when there is no match
FieldAfter(header_str, name, stops) ==
    LET at == FirstFrom(header_str, 1, LAMBDA p : p.t = "key" /\ p.s = name)
        stop == FirstFrom(header_str, at + 2, LAMBDA p : p.t = "key" /\ p.s \in stops)
    IN  IF at = 0 \/ at = Len(header_str) THEN <<>>
        ELSE SubSeq(header_str, at + 1, IF stop = 0 THEN Len(header_str) ELSE stop - 1)

\* a Header, None, or the exception the parsing of the date raised
HeaderReturned(h) == [raised |-> FALSE, value |-> h]

HeaderRaised == [raised |-> TRUE, value |-> NoHeader]

\* _parse_header_block returning a Header whether a sender was found or not
parse_header_block_NoSenderCheck(header_str) ==
    LET from_contact == parse_contact(FieldAfter(header_str, "From", {"Sent", "To"}))
        sent_date == parse_datetime(FieldAfter(header_str, "Sent", {"To", "Subject", "Cc"}))
        to_contact == parse_contact(FieldAfter(header_str, "To", {"Subject", "Cc"}))
        subject == FieldAfter(header_str, "Subject", {"Cc"})
    IN  IF sent_date.raised THEN HeaderRaised
        ELSE HeaderReturned(Header(from_contact, sent_date.value, to_contact, subject))

\* JsonProcessor._parse_header_block(header_str)
parse_header_block(header_str) ==
    LET from_contact == parse_contact(FieldAfter(header_str, "From", {"Sent", "To"}))
        sent_date == parse_datetime(FieldAfter(header_str, "Sent", {"To", "Subject", "Cc"}))
        to_contact == parse_contact(FieldAfter(header_str, "To", {"Subject", "Cc"}))
        subject == FieldAfter(header_str, "Subject", {"Cc"})
    IN  IF sent_date.raised THEN HeaderRaised
        ELSE IF ~from_contact.has THEN HeaderReturned(NoHeader)
        ELSE HeaderReturned(Header(from_contact, sent_date.value, to_contact, subject))

\* the notations with a time of day in them
TimedNotations == DateNotations \ {"dateonly"}

\* _parse_header_oneline: after_time, once the offset and the word "от" / "from"
\* in front of it are gone; the AM / PM of a 12-hour time comes after the time
AfterTime(header_str, at) ==
    LET rest == SubSeq(header_str, at + 1, Len(header_str))
        tail == IF rest # <<>> /\ rest[1].t = "from_word" THEN Tail(rest) ELSE rest
    IN  IF header_str[at].t = "en_ampm" THEN <<Other(header_str[at].s)>> \o rest ELSE tail

\* _parse_header_oneline: from_contact when the string has a time in it.  The
\* name is what stands between the time and the address; the pattern wants
\* one character at least there, which the opening bracket of the address is
\* when nothing else is
ContactAfterTime(after_time, email) ==
    LET at == FirstFrom(after_time, 1, LAMBDA p : IsEmailPiece(p) /\ p.s = email)
        later == FirstFrom(after_time, 2, LAMBDA p : IsEmailPiece(p) /\ p.s = email)
    IN  IF at = 0 THEN Contact(email, <<>>)
        ELSE IF at > 1 THEN Contact(email, SubSeq(after_time, 1, at - 1))
        ELSE IF after_time[1].t = "angle_email" THEN Contact(email, <<Other("<")>>)
        ELSE IF later # 0 THEN Contact(email, SubSeq(after_time, 1, later - 1))
        ELSE Contact(email, <<>>)

\* the Contact the caller gave as main_contact
MainContact == Contact("me@my.org", <<Other("Me")>>)

\* JsonProcessor._parse_header_oneline(header_str)
parse_header_oneline(header_str, mc) ==
    LET sent_date == parse_datetime(header_str)
        email_match == FirstFrom(header_str, 1, IsEmailPiece)
        time_match == FirstFrom(header_str, 1, LAMBDA p : p.t \in TimedNotations)
        from_contact ==
            IF email_match = 0 THEN NoContact
            ELSE IF time_match # 0
                 THEN ContactAfterTime(AfterTime(header_str, time_match), header_str[email_match].s)
            ELSE parse_contact(header_str)
    IN  IF sent_date.raised THEN HeaderRaised
        ELSE IF header_str[1].t = "youwrote"
             THEN IF mc THEN HeaderReturned(Header(MainContact, sent_date.value, NoContact, <<>>))
                  ELSE HeaderReturned(NoHeader)
        ELSE IF ~from_contact.has THEN HeaderReturned(NoHeader)
        ELSE HeaderReturned(Header(from_contact, sent_date.value, NoContact, <<>>))

\* JsonProcessor._parse_header_string(header_str)
parse_header_string(header_str, mc) ==
    IF header_str = <<>> THEN HeaderReturned(NoHeader)
    ELSE IF \E i \in 1..Len(header_str) : header_str[i].t = "key" /\ header_str[i].s = "From"
         THEN parse_header_block(header_str)
    ELSE parse_header_oneline(header_str, mc)

\* parse_messages leaving a record without header string without header, main
\* contact or not
parse_messages_IgnoresMainContact(messages_data, mc) ==
    LET headers_parsed ==
            List([i \in 1..Len(messages_data) |->
                IF messages_data[i].header_str # <<>>
                THEN parse_header_string(messages_data[i].header_str, mc)
                ELSE HeaderReturned(NoHeader)])
    IN  IF \E i \in 1..Len(messages_data) : headers_parsed[i].raised
        THEN [raised |-> TRUE, value |-> <<>>]
        ELSE [raised |-> FALSE,
              value |-> List([i \in 1..Len(messages_data) |->
                            Message(headers_parsed[i].value, messages_data[i].text)])]

\* JsonProcessor.parse_messages(messages_data): the list of Message, or the
\* exception the parsing of a header raised
parse_messages(messages_data, mc) ==
    LET headers_parsed ==
            List([i \in 1..Len(messages_data) |->
                IF messages_data[i].header_str # <<>>
                THEN parse_header_string(messages_data[i].header_str, mc)
                ELSE IF mc THEN HeaderReturned(Header(MainContact, NoneDT, NoContact, <<>>))
                ELSE HeaderReturned(NoHeader)])
    IN  IF \E i \in 1..Len(messages_data) : headers_parsed[i].raised
        THEN [raised |-> TRUE, value |-> <<>>]
        ELSE [raised |-> FALSE,
              value |-> List([i \in 1..Len(messages_data) |->
                            Message(headers_parsed[i].value, messages_data[i].text)])]

\* the pieces of the string a word class stands for
SpellWord(c) ==
    CASE c = "plain" -> <<Other("hello")>>
      [] c = "one" -> <<DatePiece("numeric", 14, 5, 2024, 17, 35, 0, ""), Other("A"), AngleEmail("a@b.c")>>
      [] c = "kv" -> <<Key("From"), Email("a@b.c"), Key("Sent"), DatePiece("numeric", 14, 5, 2024, 17, 35, 0, "")>>
      [] c = "key" -> <<Key("To"), Email("x@y.z")>>
      [] c = "sd" -> <<Key("Sent"), DatePiece("numeric", 14, 5, 2024, 17, 35, 0, ""),
                       Key("Sent"), DatePiece("dateonly", 14, 5, 2024, 0, 0, 0, "")>>
      [] c = "wrote" -> <<YouWrote, DatePiece("dateonly", 14, 5, 2024, 0, 0, 0, "")>>
      [] OTHER -> <<Other(c)>>

\* a header string of the tree, spelled out in pieces
Spell(text) ==
    FoldSeq(LAMBDA pieces, t : IF t.k = "w" THEN pieces \o SpellWord(t.c) ELSE pieces, <<>>, text)

\* the records of extract_messages with their header strings spelled out
Spelled(recs) == List([i \in 1..Len(recs) |-> [recs[i] EXCEPT !.header_str = Spell(@)]])

(***************************************************************************)
(* Spec: HtmlProcessor.process on a document, then extract_messages.  The  *)
(* while loops the rewrites run to a fixpoint take one step an iteration.  *)
(***************************************************************************)
MaxNodes == 3

\* the text nodes and the tags of the small documents
LeafTerms == {Text(<<"plain">>), Text(<<"one">>), Text(<<" ">>), Tag("br", "", <<>>)}

ContainerNames == {"div", "blockquote", "span", "td"}

RECURSIVE Forests(_)
RECURSIVE Trees(_)
\* the trees of exactly n nodes
Trees(n) ==
    IF n = 1 THEN LeafTerms \cup {Tag(c, "", <<>>) : c \in ContainerNames}
    ELSE {Tag(c, "", f) : c \in ContainerNames, f \in Forests(n - 1)}

\* the lists of trees of exactly n nodes in all; the parser never leaves two text nodes
\* side by side
Forests(n) ==
    IF n = 0 THEN {<<>>}
    ELSE UNION {{<<p[1]>> \o p[2] :
                    p \in {q \in Trees(k) \X Forests(n - k) :
                              q[2] = <<>> \/ q[1].name # "#text" \/ q[2][1].name # "#text"}}
                : k \in 1..n}

\* every document of at most MaxNodes nodes
SmallDocuments == UNION {Forests(n) : n \in 0..MaxNodes}

P == Text(<<"plain">>)

Div(kids) == Tag("div", "", kids)

Bq(kids) == Tag("blockquote", "", kids)

\* n line breaks in a row
Breaks(n) == List([i \in 1..n |-> Tag("br", "", <<>>)])

\* two quotes side by side
NeighbouringQuotes == <<Bq(<<P>>), Bq(<<P>>)>>

\* a quote that ends with a nested quote, and a quote after it
QuoteAfterNestedQuote == <<Bq(<<P, Bq(<<P>>)>>), Bq(<<P>>)>>

\* two quotes with a line of text between them
QuotesAroundText == <<Bq(<<P>>), Div(<<P>>), Bq(<<P>>)>>

\* a reply: the answer, the line naming the quoted author, the quote
Reply == <<Div(<<P>>), Div(<<Text(<<"one">>)>>), Bq(<<Div(<<P>>)>>)>>

\* a reply with a line in front of the quote that says when, not who
YouWroteReply == <<Div(<<P>>), Div(<<Text(<<"wrote">>)>>), Bq(<<Div(<<P>>)>>)>>

\* a reply with a line in front of the quote that gives two dates under two labels
SentDateReply == <<Div(<<P>>), Div(<<Text(<<"sd">>)>>), Bq(<<Div(<<P>>)>>)>>

\* the same with the header line inside wrappers of its own
WrappedHeaderReply == <<Div(<<P>>), Div(<<Div(<<Text(<<"one">>)>>), Tag("br", "", <<>>)>>), Bq(<<P>>)>>

\* a forwarded message between its two divider lines, and text after it
Forwarded ==
    <<Div(<<P>>), Div(<<Text(<<"fwd">>)>>), Div(<<Text(<<"one">>)>>), Div(<<P>>),
      Div(<<Text(<<"end">>)>>), Div(<<P>>)>>

\* a forwarded message that holds a forwarded message, each between its two
\* divider lines
NestedForwarded ==
    <<Div(<<P>>), Div(<<Text(<<"fwd">>)>>), Div(<<Text(<<"one">>)>>), Div(<<P>>),
      Div(<<Text(<<"fwd">>)>>), Div(<<Text(<<"one">>)>>), Div(<<P>>), Div(<<Text(<<"end">>)>>),
      Div(<<P>>), Div(<<Text(<<"end">>)>>), Div(<<P>>)>>

\* a divider line that no header follows
DividerAlone == <<Div(<<Text(<<"fwd">>)>>), Div(<<P>>)>>

\* a From:/Sent: block in front of a quote
BlockHeaderReply == <<Div(<<P>>), Div(<<Text(<<"kv">>)>>), Bq(<<Div(<<P>>)>>)>>

\* a header spread over three div in a row
MultipleDivReply ==
    <<Div(<<P>>), Div(<<Text(<<"key">>)>>), Div(<<Text(<<"key">>)>>), Div(<<Text(<<"one">>)>>),
      Bq(<<Div(<<P>>)>>)>>

\* a From:/Sent: block inside a wrapper of its own, and a To: line after the wrapper
WrappedBlockThenKey == <<Div(<<Div(<<Text(<<"kv">>)>>)>>), Div(<<Text(<<"key">>)>>), Div(<<P>>)>>

\* a note with a title in front of it
TitledNote == <<Tag("title", "", <<P>>), Div(<<P>>), Div(<<P>>)>>

\* a note with an ampersand in it
AmpersandNote == <<Div(<<Text(<<"amp">>)>>), Div(<<P>>)>>

\* two quoted messages that follow their header lines without quote markup, the
\* first of them with a quote of its own
UnquotedThread ==
    <<Div(<<P>>), Div(<<Text(<<"one">>)>>), Div(<<P>>), Bq(<<P>>), Div(<<Text(<<"one">>)>>),
      Div(<<P>>)>>

\* a whole page: head with a title, body with a paragraph and a quote marked by its class
Page ==
    <<Tag("html", "", <<Tag("head", "", <<Tag("title", "", <<P>>), Tag("style", "", <<P>>)>>),
                        Tag("body", "", <<Tag("p", "", <<P>>),
                                          Tag("div", "class=mail-quote-collapse", <<Tag("b", "", <<P>>)>>)>>)>>)>>

\* a table cell holding more line breaks in front of a div than unwrap_div makes passes
LongCell == <<Tag("td", "", Breaks(MAX_LOOPS + 1) \o <<Div(<<P>>)>>)>>

\* a table cell holding two div with so many line breaks between them that the
\* last pass unwrap_div makes is the one that brings the two together
WideCell == <<Tag("td", "", <<Div(<<P>>)>> \o Breaks(2 * (MAX_LOOPS - 1)) \o <<Div(<<P>>)>>)>>

\* a date line on four lines of its own, a To: line, and the same date line again
RepeatedLine ==
    <<Div(<<Text(<<"plain", "\n", "\n", "\n", "\n", "one">>)>>), Div(<<Text(<<"key">>)>>),
      Div(<<Text(<<"plain", "\n", "\n", "\n", "\n", "one">>)>>), Div(<<P>>)>>

\* documents of the shapes mail clients produce
MailDocuments ==
    {NeighbouringQuotes, QuoteAfterNestedQuote, QuotesAroundText, Reply, YouWroteReply,
     SentDateReply,
     WrappedHeaderReply,
     Forwarded, NestedForwarded, DividerAlone, BlockHeaderReply, MultipleDivReply, WrappedBlockThenKey, TitledNote,
     AmpersandNote, UnquotedThread, RepeatedLine,
     Page, LongCell, WideCell}

Documents == SmallDocuments \cup MailDocuments

Init ==
    /\ JIdle
    /\ LIdle
    /\ \E d \in Documents : soup = Parse(d)
    /\ pc = "clear_system_tags"
    /\ changed = FALSE
    /\ loop_counter = 0
    /\ headers = <<>>
    /\ hpos = 0
    /\ error = "none"
    /\ records = <<>>
    /\ original = soup
    /\ round = 1
    /\ first_out = <<>>

\* self.clear_system_tags()
ClearSystemTags ==
    /\ pc = "clear_system_tags"
    /\ soup' = clear_system_tags(soup)
    /\ pc' = "clear_empty_tags"
    /\ UNCHANGED <<changed, loop_counter, headers, hpos, error, records, original, round, first_out>>
    /\ UNCHANGED jvars
    /\ UNCHANGED lvars

\* clear_empty_tags: an iteration of while changed; after the last one the blank strings go
ClearEmptyTags ==
    /\ pc = "clear_empty_tags"
    /\ LET r == ClearEmptyPass(soup) IN
       /\ changed' = r.changed
       /\ soup' = IF r.changed THEN r.soup ELSE ExtractBlankStrings(r.soup)
       /\ pc' = IF r.changed THEN pc ELSE "clear_attributes"
    /\ UNCHANGED <<loop_counter, headers, hpos, error, records, original, round, first_out>>
    /\ UNCHANGED jvars
    /\ UNCHANGED lvars

\* a rewrite without a loop of its own: soup becomes f(soup) and the next rewrite is due
Rewrite(here, result, next) ==
    /\ pc = here
    /\ soup' = result
    /\ pc' = next
    /\ UNCHANGED <<changed, loop_counter, headers, hpos, error, records, original, round, first_out>>
    /\ UNCHANGED jvars
    /\ UNCHANGED lvars

ClearAttributes == Rewrite("clear_attributes", clear_attributes(soup), "simplify_tags")

SimplifyTags == Rewrite("simplify_tags", simplify_tags(soup), "wrap_orphan_text_nodes")

WrapOrphanTextNodes == Rewrite("wrap_orphan_text_nodes", wrap_orphan_text_nodes(soup), "process_headers")

ProcessHeaders == Rewrite("process_headers", process_headers(soup), "unwrap_span")

UnwrapSpan == Rewrite("unwrap_span", unwrap_span(soup), "process_forwarded_messages")

\* process_forwarded_messages: an iteration of while changed
ProcessForwardedMessages ==
    /\ pc = "process_forwarded_messages"
    /\ LET r == ForwardedPass(soup) IN
       /\ changed' = r.changed
       /\ soup' = r.soup
       /\ pc' = IF r.changed THEN pc ELSE "improve_blockquote"
    /\ UNCHANGED <<loop_counter, headers, hpos, error, records, original, round, first_out>>
    /\ UNCHANGED jvars
    /\ UNCHANGED lvars

\* the header loop of improve_blockquote is over: _unwrap_quotes is due
AfterHeaders(hs, i) == IF i > Len(hs) THEN "unwrap_quotes_1" ELSE "unwrap_headers"

\* improve_blockquote, up to the loop over the headers
ImproveBlockquote ==
    /\ pc = "improve_blockquote"
    /\ soup' = RenameQuoteDivs(soup)
    /\ headers' = FindAllHeaders(soup')
    /\ hpos' = 1
    /\ pc' = AfterHeaders(headers', 1)
    /\ UNCHANGED <<changed, loop_counter, error, records, original, round, first_out>>
    /\ UNCHANGED jvars
    /\ UNCHANGED lvars

\* improve_blockquote: an iteration of while True for the header at hand.  Unwrapping the
\* BeautifulSoup object, which has no parent, raises ValueError, after the siblings were removed
UnwrapHeader ==
    /\ pc = "unwrap_headers"
    /\ LET header == headers[hpos]
           parent == soup[header].parent
       IN IF parent = 0 \/ soup[parent].name \in {"body", "html", "blockquote"}
             \/ ~CanUnwrapAround(soup, parent, header)
          THEN /\ hpos' = hpos + 1
               /\ pc' = AfterHeaders(headers, hpos + 1)
               /\ UNCHANGED <<soup, error>>
          ELSE IF parent = Root
          THEN /\ soup' = ExtractAll(soup, Without(soup[parent].kids, header))
               /\ error' = "ValueError"
               /\ pc' = "raised"
               /\ UNCHANGED hpos
          ELSE /\ soup' = UnwrapAround(soup, parent, header)
               /\ UNCHANGED <<hpos, pc, error>>
    /\ UNCHANGED <<changed, loop_counter, headers, records, original, round, first_out>>
    /\ UNCHANGED jvars
    /\ UNCHANGED lvars

\* _unwrap_quotes: an iteration of while changed; after the first call improve_blockquote
\* moves the headers into the quotes that follow them, after the second unwrap_div is due
UnwrapQuotes ==
    /\ pc \in {"unwrap_quotes_1", "unwrap_quotes_2"}
    /\ LET r == UnwrapQuotesPass(soup) IN
       /\ changed' = r.changed
       /\ soup' = IF ~r.changed /\ pc = "unwrap_quotes_1"
                  THEN MoveHeadersIntoQuotes(r.soup, FindAllHeaders(r.soup)) ELSE r.soup
       /\ pc' = IF r.changed THEN pc
                ELSE IF pc = "unwrap_quotes_1" THEN "unwrap_quotes_2" ELSE "unwrap_div"
    /\ loop_counter' = 0
    /\ UNCHANGED <<headers, hpos, error, records, original, round, first_out>>
    /\ UNCHANGED jvars
    /\ UNCHANGED lvars

\* unwrap_div: an iteration of while changed and loop_counter < MAX_LOOPS
UnwrapDiv ==
    /\ pc = "unwrap_div"
    /\ LET r == UnwrapDivPass(soup) IN
       /\ changed' = r.changed
       /\ soup' = r.soup
       /\ pc' = IF r.changed /\ loop_counter + 1 < MAX_LOOPS THEN pc ELSE "ensure_blockquote"
    /\ loop_counter' = loop_counter + 1
    /\ UNCHANGED <<headers, hpos, error, records, original, round, first_out>>
    /\ UNCHANGED jvars
    /\ UNCHANGED lvars

EnsureBlockquote == Rewrite("ensure_blockquote", ensure_blockquote(soup), "nest_neighboring_quotes")

NestNeighboringQuotes == Rewrite("nest_neighboring_quotes", nest_neighboring_quotes(soup), "move_remnants")

MoveRemnants == Rewrite("move_remnants", move_remnants(soup), "convert_br_to_newlines")

ConvertBrToNewlines == Rewrite("convert_br_to_newlines", convert_br_to_newlines(soup), "extract_messages")

\* JsonProcessor(html=soup).extract_messages()
ExtractMessages ==
    /\ pc = "extract_messages"
    /\ records' = extract_messages(soup)
    /\ pc' = "done"
    /\ UNCHANGED <<soup, changed, loop_counter, headers, hpos, error, original, round, first_out>>
    /\ UNCHANGED jvars
    /\ UNCHANGED lvars

Next ==
    \/ ClearSystemTags
    \/ ClearEmptyTags
    \/ ClearAttributes
    \/ SimplifyTags
    \/ WrapOrphanTextNodes
    \/ ProcessHeaders
    \/ UnwrapSpan
    \/ ProcessForwardedMessages
    \/ ImproveBlockquote
    \/ UnwrapHeader
    \/ UnwrapQuotes
    \/ UnwrapDiv
    \/ EnsureBlockquote
    \/ NestNeighboringQuotes
    \/ MoveRemnants
    \/ ConvertBrToNewlines
    \/ ExtractMessages

Spec == Init /\ [][Next]_vars

\* process() is called once more on the tree the first call returned
ProcessAgain ==
    /\ pc = "extract_messages"
    /\ round = 1
    /\ first_out' = TreeOf(soup, Root)
    /\ round' = 2
    /\ pc' = "clear_system_tags"
    /\ changed' = FALSE
    /\ loop_counter' = 0
    /\ headers' = <<>>
    /\ hpos' = 0
    /\ UNCHANGED <<soup, error, records, original>>
    /\ UNCHANGED jvars
    /\ UNCHANGED lvars

NextTwice == Next \/ ProcessAgain

\* Spec with a second call of process() allowed after the first
SpecTwice == Init /\ [][NextTwice]_vars

(***************************************************************************)
(* SpecExtract: JsonProcessor(html=soup).extract_messages() on a tree as   *)
(* it is handed in, normalized or not.                                     *)
(***************************************************************************)

\* a reply with the header line marked in the quote
MarkedReply ==
    <<Div(<<P>>), Bq(<<Tag("div", "quote_header_oneline", <<Text(<<"one">>)>>), Div(<<P>>)>>)>>

\* quotes side by side and inside one another, and one inside a div
ThreadOfQuotes ==
    <<Div(<<P>>), Bq(<<Div(<<P>>), Bq(<<P>>), Bq(<<P, Bq(<<P>>)>>)>>), Div(<<Bq(<<P>>)>>), Bq(<<P>>)>>

\* the trees extract_messages is run on
ExtractDocuments == Documents \cup {MarkedReply, ThreadOfQuotes}

\* JsonProcessor(html=soup), about to run extract_messages
InitExtract ==
    /\ JIdle
    /\ LIdle
    /\ \E d \in ExtractDocuments : soup = Parse(d)
    /\ pc = "extract_messages"
    /\ changed = FALSE
    /\ loop_counter = 0
    /\ headers = <<>>
    /\ hpos = 0
    /\ error = "none"
    /\ records = <<>>
    /\ original = soup
    /\ round = 1
    /\ first_out = <<>>

NextExtract == ExtractMessages

SpecExtract == InitExtract /\ [][NextExtract]_vars

(***************************************************************************)
(* SpecHeaders: HtmlProcessor.process as far as process_headers, with the  *)
(* loop over the candidates taking one step a candidate.                   *)
(***************************************************************************)

\* process_headers: the candidates are collected and sorted
CollectCandidates ==
    /\ pc = "process_headers"
    /\ headers' = HeaderCandidates(soup)
    /\ hpos' = 1
    /\ pc' = IF headers' = <<>> THEN "headers_marked" ELSE "mark_candidates"
    /\ UNCHANGED <<soup, changed, loop_counter, error, records, original, round, first_out>>
    /\ UNCHANGED jvars
    /\ UNCHANGED lvars

\* process_headers: one iteration of "for node in candidates"
MarkCandidate ==
    /\ pc = "mark_candidates"
    /\ soup' = VisitCandidate(soup, headers[hpos])
    /\ hpos' = hpos + 1
    /\ pc' = IF hpos = Len(headers) THEN "headers_marked" ELSE pc
    /\ UNCHANGED <<changed, loop_counter, headers, error, records, original, round, first_out>>
    /\ UNCHANGED jvars
    /\ UNCHANGED lvars

NextHeaders ==
    \/ ClearSystemTags
    \/ ClearEmptyTags
    \/ ClearAttributes
    \/ SimplifyTags
    \/ WrapOrphanTextNodes
    \/ CollectCandidates
    \/ MarkCandidate

SpecHeaders == Init /\ [][NextHeaders]_vars

(***************************************************************************)
(* SpecParse: JsonProcessor.process from parse_messages on, for records    *)
(* whose header strings run through the notations of dates and contacts.   *)
(***************************************************************************)

\* a date of a notation with every field in range: 14 May 2024, 17:35 (1:35 PM)
GoodDate(t) ==
    DatePiece(t, 14, 5, 2024,
              IF t = "dateonly" THEN 0 ELSE IF t = "en_ampm" THEN 1 ELSE 17,
              IF t = "dateonly" THEN 0 ELSE 35,
              IF t = "ru_sec" THEN 45 ELSE 0,
              IF t = "en_ampm" THEN "PM" ELSE "")

\* dates of a notation that differ from the good one in the day and month, in the
\* name of the month, in the hour, the minute, the second or the offset
DatesOf(t) ==
    LET g == GoodDate(t) IN
    {g,
     [g EXCEPT !.day = 31, !.month = 2],
     [g EXCEPT !.day = 29, !.month = 2],
     [g EXCEPT !.day = 29, !.month = 2, !.year = 2023],
     [g EXCEPT !.day = 31, !.month = 12]}
    \cup (IF t \in {"numeric", "dateonly"} THEN {[g EXCEPT !.month = 13]} ELSE {[g EXCEPT !.month = 0]})
    \cup (IF t = "dateonly" THEN {}
          ELSE {[g EXCEPT !.hour = 25], [g EXCEPT !.hour = 0], [g EXCEPT !.minute = 60]})
    \cup (IF t = "en_ampm"
          THEN {[g EXCEPT !.hour = 13], [g EXCEPT !.hour = 12], [g EXCEPT !.hour = 12, !.s = "AM"]}
          ELSE {})
    \cup (IF t = "ru_sec" THEN {[g EXCEPT !.second = 61]} ELSE {})
    \cup (IF t \in {"ru_sec", "long"}
          THEN {WithOffset(g, 1, 3, 0), WithOffset(g, -1, 5, 30), WithOffset(g, 1, 25, 0)}
          ELSE {})

DatePieces == UNION {DatesOf(t) : t \in DateNotations}

\* one-line header strings around a date
OnelineStrings(d) ==
    {<<d, Other("A"), AngleEmail("a@b.c")>>,
     <<d, FromWord, Other("A"), AngleEmail("a@b.c")>>,
     <<d, Email("a@b.c")>>,
     <<YouWrote, d>>,
     <<d, Other("A")>>}

\* block header strings around a date
BlockStrings(d) ==
    {<<Key("From"), Other("A"), AngleEmail("a@b.c"), Key("Sent"), d,
       Key("To"), Email("x@y.z"), Key("Subject"), Other("hello")>>,
     <<Key("From"), Other("A"), Key("Sent"), d>>}

\* header strings without a date
UndatedStrings ==
    {<<Other("A"), AngleEmail("a@b.c"), Other("wrote")>>,
     <<AngleEmail("a@b.c")>>,
     <<Other("hello")>>,
     <<Key("From"), Email("a@b.c")>>,
     <<Key("From")>>,
     <<Key("To"), Email("x@y.z")>>}

HeaderStrings ==
    UNION {OnelineStrings(d) \cup BlockStrings(d) : d \in DatePieces} \cup UndatedStrings

\* header strings for the lists of more than two records
FewHeaderStrings ==
    UNION {OnelineStrings(d) : d \in {GoodDate("numeric"), GoodDate("dateonly")}}
    \cup BlockStrings(GoodDate("numeric"))
    \cup {<<Other("hello")>>}

\* the record of the root: no header
RootRecord == [has_header |-> FALSE, header_str |-> <<>>, text |-> <<Word(1, "plain")>>]

\* the record number i of a quote container: with a header, or without one
QuoteRecords(i, strings) ==
    {[has_header |-> TRUE, header_str |-> h, text |-> <<Word(i, "plain")>>] : h \in strings}
    \cup {[has_header |-> FALSE, header_str |-> <<>>, text |-> <<Word(i, "plain")>>]}

\* the lists extract_messages can return: the root record first
RecordLists ==
    {<<RootRecord>>}
    \cup {<<RootRecord, q>> : q \in QuoteRecords(2, HeaderStrings)}
    \cup {<<RootRecord, q, r>> : q \in QuoteRecords(2, FewHeaderStrings),
                                 r \in QuoteRecords(3, FewHeaderStrings)}

\* JsonProcessor(html, main_contact).process(), extract_messages done
InitParse ==
    /\ soup = <<>> /\ pc = "idle" /\ changed = FALSE /\ loop_counter = 0
    /\ headers = <<>> /\ hpos = 0 /\ error = "none" /\ original = <<>>
    /\ round = 0 /\ first_out = <<>>
    /\ records \in RecordLists
    /\ LIdle
    /\ entry = "process"
    /\ main_contact \in BOOLEAN
    /\ messages = <<>>
    /\ jpc = "extracted"
    /\ jin = <<>>
    /\ jparsed = <<>>

\* messages = self.parse_messages(messages_data), for the records recs
ParseRecords(recs) ==
    LET parsed == parse_messages(recs, main_contact) IN
    IF parsed.raised
    THEN /\ error' = "ValueError"
         /\ jpc' = "raised"
         /\ UNCHANGED <<messages, jparsed>>
    ELSE /\ messages' = parsed.value
         /\ jparsed' = parsed.value
         /\ jpc' = "parsed"
         /\ error' = error

\* messages = self.parse_messages(messages_data)
ParseMessages ==
    /\ jpc = "extracted"
    /\ ParseRecords(records)
    /\ UNCHANGED <<entry, main_contact, jin>>
    /\ UNCHANGED <<soup, pc, changed, loop_counter, headers, hpos, records, original, round, first_out>>
    /\ UNCHANGED lvars

NextParse == ParseMessages \/ JNext

SpecParse == InitParse /\ [][NextParse]_vars

(***************************************************************************)
(* SpecMail: EmailParser(html, main_contact): HtmlProcessor.process, then  *)
(* JsonProcessor(soup, main_contact).process().                            *)
(***************************************************************************)

\* self.json_processor = JsonProcessor(html=self.soup, main_contact=main_contact) and
\* process() as far as parse_messages, on the records extract_messages returned
ParseExtracted ==
    /\ pc = "done" /\ jpc = "idle"
    /\ \E mc \in BOOLEAN : main_contact' = mc
    /\ entry' = "process"
    /\ LET parsed == parse_messages(Spelled(records), main_contact') IN
       /\ messages' = parsed.value
       /\ jparsed' = parsed.value
       /\ jpc' = IF parsed.raised THEN "raised" ELSE "parsed"
       /\ error' = IF parsed.raised THEN "ValueError" ELSE error
    /\ jin' = jin
    /\ UNCHANGED <<soup, pc, changed, loop_counter, headers, hpos, records, original, round, first_out>>
    /\ UNCHANGED lvars

NextMail == Next \/ ParseExtracted \/ JNext

SpecMail == Init /\ [][NextMail]_vars

(***************************************************************************)
(* Claims about the Normalizer and the Message Extractor (checked under    *)
(* Spec and SpecTwice).  Text is followed by its words: a word keeps the   *)
(* identity of the text node of the original document it was read from,    *)
(* whatever node holds it later.                                           *)
(***************************************************************************)

\* the words of a string, in order, whether spelled with entities or not
WordsOf(s) ==
    LET ws == SelectSeq(s, LAMBDA t : t.k = "w") IN
    List([i \in 1..Len(ws) |-> Word(ws[i].w, ws[i].c)])

\* the words of the text nodes below node x, in document order
TreeWords(ar, x) ==
    FoldSeq(LAMBDA ws, d : IF IsString(ar, d) THEN ws \o WordsOf(ar[d].text) ELSE ws,
            <<>>, Descendants(ar, x))

\* the words of the records, header_str and text
RecordWords(recs) ==
    FoldSeq(LAMBDA ws, r : ws \o WordsOf(r.header_str) \o WordsOf(r.text), <<>>, recs)

\* how many times t is in s
Occurrences(t, s) == Cardinality({i \in 1..Len(s) : s[i] = t})

\* a and b hold the same words the same number of times
SameWords(a, b) ==
    /\ Len(a) = Len(b)
    /\ \A i \in 1..Len(a) : Occurrences(a[i], a) = Occurrences(a[i], b)

\* C1: extract_messages partitions the text of the normalized tree: the
\* words of its text nodes are, one for one, the words of the header and
\* body texts of the records emitted; none is missing and none is there twice.
C1_Closure == pc = "done" => SameWords(TreeWords(soup, Root), RecordWords(records))

\* a reply: the answer in a record without header, the quote in a record
\* with the header line, each text in its own record
C1_Witness ==
    /\ pc = "done"
    /\ Len(records) = 2
    /\ ~records[1].has_header /\ WordsOf(records[1].text) # <<>>
    /\ records[2].has_header /\ WordsOf(records[2].header_str) # <<>>
    /\ WordsOf(records[2].text) # <<>>

RECURSIVE InSystemTag(_, _)
\* node x of ar is, or lies in, a tag that clear_system_tags decomposes
InSystemTag(ar, x) ==
    IF x = 0 THEN FALSE
    ELSE IF ar[x].name \in SYSTEM_TAGS \ {"html", "body"} THEN TRUE
    ELSE InSystemTag(ar, ar[x].parent)

\* the words of the document as it was handed to process()
OriginalWords == TreeWords(original, Root)

\* the words of the records extract_messages returned
EmittedWords == RecordWords(records)

C3_Idempotent == (round = 2 /\ pc = "extract_messages") => TreeOf(soup, Root) = first_out

\* the statements of process() and the loops inside them, in the order they run in
Stages ==
    <<"clear_system_tags", "clear_empty_tags", "clear_attributes", "simplify_tags",
      "wrap_orphan_text_nodes", "process_headers", "unwrap_span", "process_forwarded_messages",
      "improve_blockquote", "unwrap_headers", "unwrap_quotes_1", "unwrap_quotes_2", "unwrap_div",
      "ensure_blockquote", "nest_neighboring_quotes", "move_remnants", "convert_br_to_newlines",
      "extract_messages", "done">>

\* how far process() has come; an exception ends it
Stage(p) == IF p = "raised" THEN Len(Stages) ELSE IndexOf(Stages, p)

\* the number of tags in the tree
TagCount(ar) == Cardinality({n \in TreeNodes(ar) : IsTag(ar, n)})

\* what an iteration of the loop process() is in uses up: tags of the tree in
\* clear_empty_tags and _unwrap_quotes, dividers in process_forwarded_messages,
\* headers still to visit and, for the header at hand, its depth in improve_blockquote,
\* passes left in unwrap_div
Variant ==
    CASE pc = "clear_empty_tags" -> TagCount(soup)
      [] pc = "process_forwarded_messages" ->
             Cardinality({n \in TreeNodes(soup) : soup[n].attr = "divider"})
      [] pc = "unwrap_headers" ->
             (Len(headers) - hpos) * (Len(soup) + 1) + Depth(soup, headers[hpos])
      [] pc \in {"unwrap_quotes_1", "unwrap_quotes_2"} -> TagCount(soup)
      [] pc = "unwrap_div" -> MAX_LOOPS - loop_counter
      [] OTHER -> 0

\* C4: every loop of the Normalizer comes to an end, on every document, and
\* so process() finishes: a step of process() either leaves the loop it is
\* in for a later statement (or raises), or is an iteration that uses up
\* some of a finite stock the loop has - no loop can go round for ever.
C4_LoopsTerminate ==
    [][\/ Stage(pc') > Stage(pc)
       \/ pc' = pc /\ Variant' < Variant /\ Variant' >= 0]_vars

\* process() has returned after unwrap_div went through its loop three
\* times or more and found nothing left to change
C4_Witness == pc = "done" /\ loop_counter >= 3 /\ ~changed

\* C5 as stated: a rewrite that is still changing the tree when it reaches
\* its iteration ceiling makes the pipeline report that it did not
\* converge: process() never returns a tree to its caller after unwrap_div
\* left its loop at MAX_LOOPS with the last pass having changed the tree.
C5_CeilingSurfaced ==
    (pc \in {"extract_messages", "done"} /\ loop_counter = MAX_LOOPS /\ changed)
        => error # "none"

\* C6 as stated: when nest_neighboring_quotes is done, no blockquote of the
\* tree has a blockquote as its previous significant sibling.
C6_StrictlyNested ==
    pc = "move_remnants" =>
        \A q \in TreeNodes(soup) :
            IsNamed(soup, q, "blockquote")
                => ~IsNamed(soup, GetSignificantSibling(soup, q, "prev", FALSE), "blockquote")

(***************************************************************************)
(* Claims about the Timeline Reconciler (checked under SpecJson).          *)
(***************************************************************************)

\* a timestamp as an instant: ticks since the epoch in UTC, an offset-naive
\* reading counted as UTC+3
Instant(dt) == IF dt.aware THEN dt.wall - dt.off ELSE dt.wall - 3 * Hour

\* the message has a header whose sent is present and is not a bare date
\* (midnight without offset)
KnownMsg(m) == m.hdr /\ m.sent.has /\ (m.sent.aware \/ m.sent.wall % Day # 0)

\* the message has a header and no timestamp at all
MissingMsg(m) == m.hdr /\ ~m.sent.has

\* the largest / smallest member of a non-empty set of indices
MaxOf(S) == CHOOSE j \in S : \A k \in S : k <= j
MinOf(S) == CHOOSE j \in S : \A k \in S : j <= k

ParsedInOrder ==
    /\ \A k \in 1..Len(jparsed) : jparsed[k].sent.has => KnownMsg(jparsed[k])
    /\ \A a, b \in 1..Len(jparsed) :
           (a < b /\ jparsed[a].sent.has /\ jparsed[b].sent.has)
               => Instant(jparsed[a].sent) > Instant(jparsed[b].sent)

\* no returned timestamp reads exactly 00:00 (a filled-in naive timestamp
\* that lands on midnight is taken for a bare date by the steps after it)
NoMidnightReturned == \A k \in 1..Len(messages) : messages[k].sent.has => messages[k].sent.wall % Day # 0

C8_InteriorMidpoint ==
    jpc = "reconciled" =>
        \A i \in 2..(Len(messages) - 1) :
            MissingMsg(jin[i]) =>
                LET ps == {j \in 1..(i - 1) : KnownMsg(messages[j])}
                    ns == {j \in (i + 1)..Len(jin) : KnownMsg(jin[j])}
                IN  IF ps # {} /\ ns # {}
                    THEN /\ messages[i].sent.has
                         /\ 2 * Instant(messages[i].sent)
                              = Instant(messages[MaxOf(ps)].sent) + Instant(jin[MinOf(ns)].sent)
                    ELSE messages[i].sent = jin[i].sent

\* 10:00, missing, 14:00 gives 12:00
C8_Witness ==
    /\ jpc = "reconciled"
    /\ jin = <<HeaderMsg(Naive(1, 10), 1), HeaderMsg(NoneDT, 2), HeaderMsg(Naive(1, 14), 3)>>
    /\ messages[2].sent = Naive(1, 12)

\* C9 as stated: a boundary message with no timestamp borrows from the
\* nearest message that has a known one, adjacent or not: the first gets
\* that timestamp minus an hour, the last gets it plus an hour.
C9_NearestKnownBoundary ==
    jpc = "reconciled" =>
        LET n == Len(messages)
            ns == {j \in 2..n : KnownMsg(jin[j])}
            ps == {j \in 1..(n - 1) : KnownMsg(messages[j])}
        IN  /\ (n >= 2 /\ MissingMsg(jin[1]) /\ ns # {}) =>
                   messages[1].sent = [jin[MinOf(ns)].sent EXCEPT !.wall = @ - Hour]
            /\ (n >= 2 /\ MissingMsg(jin[n]) /\ ps # {}) =>
                   messages[n].sent = [messages[MaxOf(ps)].sent EXCEPT !.wall = @ + Hour]

\* C9 amended: a boundary message with no timestamp borrows from the message
\* right next to it only: the first gets the second's timestamp minus an
\* hour when the second has a known one, the last gets the timestamp of the
\* one before it (as reconciled) plus an hour when that is known; otherwise
\* it stays without a timestamp, however near another known timestamp is.
C9_AdjacentBoundary ==
    jpc = "reconciled" =>
        LET n == Len(messages)
        IN  /\ MissingMsg(jin[1]) =>
                   messages[1].sent =
                       IF n >= 2 /\ KnownMsg(jin[2])
                       THEN [jin[2].sent EXCEPT !.wall = @ - Hour]
                       ELSE NoneDT
            /\ (n >= 2 /\ MissingMsg(jin[n])) =>
                   messages[n].sent =
                       IF KnownMsg(messages[n - 1])
                       THEN [messages[n - 1].sent EXCEPT !.wall = @ + Hour]
                       ELSE NoneDT

\* missing, 10:00, missing: the first becomes 09:00 and the last 11:00
C9_Witness ==
    /\ jpc = "reconciled"
    /\ jin = <<HeaderMsg(NoneDT, 1), HeaderMsg(Naive(1, 10), 2), HeaderMsg(NoneDT, 3)>>
    /\ messages[1].sent = Naive(1, 9)
    /\ messages[3].sent = Naive(1, 11)

\* C10: the last step of process() leaves every present timestamp at UTC+3:
\* a naive one keeps its wall clock and gains the offset, an aware one keeps
\* its instant; absent timestamps stay absent.
C10_AllMsk ==
    [][(jpc = "reconciled" /\ jpc' = "done") =>
          \A k \in 1..Len(messages) :
              LET old == messages[k].sent
                  new == messages'[k].sent
              IN  /\ new.has = old.has
                  /\ old.has =>
                        /\ new.aware /\ new.off = 3 * Hour
                        /\ ~old.aware => new.wall = old.wall
                        /\ old.aware => new.wall - new.off = old.wall - old.off]_vars

\* a returned list holding a timestamp that was parsed with offset +05:00
\* and one that was parsed without offset
C10_Witness ==
    /\ entry = "process" /\ jpc = "done"
    /\ \E k \in 1..Len(messages) :
           /\ jin[k].sent.has /\ jin[k].sent.aware /\ jin[k].sent.off = 5 * Hour
           /\ messages[k].sent.off = 3 * Hour
    /\ \E k \in 1..Len(messages) :
           /\ jin[k].sent.has /\ ~jin[k].sent.aware
           /\ messages[k].sent.aware

(***************************************************************************)
(* Claims about the Header Parser (checked under SpecParse and SpecMail).  *)
(***************************************************************************)

\* C11 as stated: _parse_datetime never fails - whatever text it is given,
\* the header string of any record included, it returns a timestamp or None
\* and raises nothing.
C11_NeverFails ==
    \A i \in 1..Len(records) : ~parse_datetime(records[i].header_str).raised


\* C12 as stated: parse_messages emits exactly one Message per extracted record,
\* in the order of the records and with the text of each unchanged; a record
\* whose header text gives no sender yields a Message without header; no record
\* is dropped and the call never raises.
C12_OneMessagePerRecord ==
    jpc \notin {"idle", "extracted"} =>
        /\ jpc # "raised"
        /\ Len(jparsed) = Len(records)
        /\ \A i \in 1..Len(records) : jparsed[i].text = records[i].text


\* a Contact that is there and has an address
IsSender(c) == c.has /\ c.email # ""

\* the header string is one _parse_header_string takes for a block header
IsBlockString(header_str) ==
    \E i \in 1..Len(header_str) : header_str[i].t = "key" /\ header_str[i].s = "From"

\* C13: every Header _parse_header_string produces, on the block path or on the
\* one-line path, has a sender Contact, and every Contact in it (sender or
\* recipient) has a non-empty email; a header string no sender is found in
\* gives None, never a Header with an empty sender.  The same holds of the
\* Messages parse_messages built from the records.
C13_HeaderHasSender ==
    /\ \A i \in 1..Len(records) :
          LET h == parse_header_string(records[i].header_str, main_contact) IN
          (~h.raised /\ h.value.has) =>
              /\ IsSender(h.value.from_)
              /\ h.value.to.has => h.value.to.email # ""
    /\ jpc \notin {"idle", "extracted", "raised"} =>
          \A i \in 1..Len(jparsed) :
              /\ jparsed[i].hdr => IsSender(jparsed[i].from_)
              /\ jparsed[i].to.has => jparsed[i].to.email # ""
              /\ ~jparsed[i].hdr => ~jparsed[i].from_.has

\* parse_messages has parsed a block header with a sender and a one-line header
\* string in which it found no sender
C13_Witness ==
    /\ jpc = "parsed"
    /\ \E i, j \in 1..Len(records) :
          /\ IsBlockString(records[i].header_str)
          /\ jparsed[i].hdr /\ jparsed[i].from_.email = "a@b.c" /\ jparsed[i].to.has
          /\ records[j].header_str # <<>> /\ ~IsBlockString(records[j].header_str)
          /\ ~jparsed[j].hdr


RECURSIVE IsReachableQuote(_, _)
\* x is a quote container that hangs on the root by quote containers only, each
\* the direct child of the one before
IsReachableQuote(ar, x) ==
    /\ IsTag(ar, x) /\ ar[x].name = "blockquote"
    /\ ar[x].parent = Root \/ IsReachableQuote(ar, ar[x].parent)

\* the root and these quote containers, in document order (pre-order)
QuoteContainers(ar) ==
    <<Root>> \o SelectSeq(Descendants(ar, Root), LAMBDA d : IsReachableQuote(ar, d))

\* the words a container holds outside the quote containers that are its children
OwnWords(ar, x) ==
    FoldSeq(LAMBDA ws, k :
                IF IsString(ar, k) THEN ws \o WordsOf(ar[k].text)
                ELSE IF ar[k].name = "blockquote" THEN ws
                ELSE ws \o TreeWords(ar, k),
            <<>>, ar[x].kids)

\* C18: extract_messages returns the records in pre-order over the quote
\* containers - the record of a container, then those of the quote containers
\* that are its direct children, in document order - and their number is 1 plus
\* the number of quote containers reachable from the root through a chain of
\* direct-child quote containers, so at least 1.
C18_PreOrderRecords ==
    pc = "done" =>
        LET containers == QuoteContainers(soup) IN
        /\ Len(records) >= 1
        /\ Len(records) = Len(containers)
        /\ \A i \in 1..Len(records) :
              /\ SameWords(WordsOf(records[i].header_str) \o WordsOf(records[i].text),
                           OwnWords(soup, containers[i]))
              /\ records[i].has_header = (HeaderElem(soup, containers[i]) # 0)

\* extract_messages has run on a tree with two quote containers side by side
\* in a quote container, each with text of its own and one with a quote in it, and
\* with a quote container inside a div, which gets no record
C18_Witness ==
    /\ pc = "done"
    /\ \E a, b, c \in 2..Len(soup) :
          /\ a < b /\ soup[a].parent = soup[b].parent /\ soup[a].parent # Root
          /\ IsReachableQuote(soup, a) /\ IsReachableQuote(soup, b)
          /\ OwnWords(soup, a) # <<>> /\ OwnWords(soup, b) # <<>>
          /\ soup[c].parent = b /\ IsReachableQuote(soup, c)
    /\ \E d \in 2..Len(soup) :
          soup[d].name = "blockquote" /\ soup[d].parent # 0 /\ ~IsReachableQuote(soup, d)
    /\ Len(records) = 6

(***************************************************************************)
(* Claims about the header adapters (checked under SpecHeaders)            *)
(***************************************************************************)

\* header_adapters.DEFAULT_ADAPTERS, each adapter by its attr_value
DEFAULT_ADAPTERS ==
    <<"divider", "end_divider", "quote_header_multiple_block", "quote_header_block",
      "quote_header_oneline">>

\* adapter.match(element) of the adapter with this attr_value
AdapterMatch(attr_value, ar, x) ==
    CASE attr_value = "divider" -> DividerMatch(ar, x)
      [] attr_value = "end_divider" -> EndDividerMatch(ar, x)
      [] attr_value = "quote_header_multiple_block" -> MultipleDivMatch(ar, x)
      [] attr_value = "quote_header_block" -> KeyValueMatch(ar, x)
      [] attr_value = "quote_header_oneline" -> OnelineMatch(ar, x)

\* the attr_value of the first adapter of DEFAULT_ADAPTERS that matches x, "" when
\* none does
FirstMatchKind(ar, x) ==
    LET hits == {i \in 1..Len(DEFAULT_ADAPTERS) : AdapterMatch(DEFAULT_ADAPTERS[i], ar, x)} IN
    IF hits = {} THEN "" ELSE DEFAULT_ADAPTERS[CHOOSE i \in hits : \A j \in hits : i <= j]

\* the markers a step has set: on a new node, or on a node that had another
\* marker or none
NewMarks(before, after) ==
    {after[n].attr : n \in {m \in 1..Len(after) :
                              /\ after[m].attr # ""
                              /\ m > Len(before) \/ before[m].attr # after[m].attr}}

\* the candidate the loop of process_headers is at is looked at, not skipped
IsVisited(ar, node) == ~((IsTag(ar, node) /\ ar[node].dead) \/ ar[node].parent = 0)

\* the visit of a candidate sets the marker of the first adapter that matches
\* it, and no marker when none matches
FirstMatchWins ==
    LET node == headers[hpos] IN
    NewMarks(soup, soup') =
        IF IsVisited(soup, node) /\ FirstMatchKind(soup, node) # ""
        THEN {FirstMatchKind(soup, node)} ELSE {}

\* a node that carries a marker keeps it
MarkedOnce == \A n \in 1..Len(soup) : soup[n].attr # "" => soup'[n].attr = soup[n].attr

\* C14 as stated: in process_headers each candidate node is marked by at most one
\* adapter - the first of Divider, EndDivider, MultipleDiv, KeyValue, Oneline
\* whose match succeeds - so that a node that is both a key-value block and a
\* one-line header is marked quote_header_block, and a marker once set is not
\* replaced by that of another adapter.
C14_FirstAdapterOnly == [][MarkCandidate => (FirstMatchWins /\ MarkedOnce)]_vars


\* no adapter matches a node that has a marked descendant
NoMatchAboveMarked ==
    \A x \in 2..Len(soup) :
        (~soup[x].dead /\ HasMarkedChildren(soup, x)) =>
            \A i \in 1..Len(DEFAULT_ADAPTERS) : ~AdapterMatch(DEFAULT_ADAPTERS[i], soup, x)

\* the nodes a step has set a marker on
NewlyMarked(before, after) ==
    {n \in 1..Len(after) : /\ after[n].attr # ""
                           /\ n > Len(before) \/ before[n].attr # after[n].attr}

\* no step sets a marker on a node that had a marked node below it
NoAncestorMarkedLater ==
    \A n \in NewlyMarked(soup, soup') : n <= Len(soup) => ~HasMarkedChildren(soup, n)

\* C15 as stated: no double classification - match(node) is false for every
\* adapter whenever a descendant of node carries the marker, and, the candidates
\* being visited deepest first, once a node is marked none of its ancestors is
\* marked later in the same pass of process_headers.
C15_NoDoubleClassification ==
    [][MarkCandidate => (NoMatchAboveMarked /\ NoAncestorMarkedLater)]_vars


\* adapter.mark(element) of the adapter with this attr_value
ApplyMark(attr_value, ar, x) ==
    IF attr_value = "quote_header_multiple_block" THEN MultipleDivMark(ar, x, attr_value)
    ELSE BaseMark(ar, x, attr_value)

\* C16: mark is idempotent for every adapter, MultipleDiv included: the mark that
\* made a node a header, applied to that node once more, leaves the tree as the
\* first application left it - the header with the same single text child and
\* the same marker, among the same siblings.
C16_MarkIdempotent ==
    [][MarkCandidate =>
          \A n \in NewlyMarked(soup, soup') :
              TreeOf(ApplyMark(soup'[n].attr, soup', n), Root) = TreeOf(soup', Root)]_vars

\* process_headers has made one header of several div in a row, the others are
\* gone from the tree, and marking the header again changes nothing
C16_Witness ==
    /\ pc \in {"mark_candidates", "headers_marked"}
    /\ \E n \in 2..Len(soup) :
          /\ ~soup[n].dead /\ soup[n].parent # 0 /\ soup[n].attr = "quote_header_multiple_block"
          /\ \E m \in 2..Len(soup) : soup[m].dead /\ soup[m].name = "div"
          /\ TreeOf(ApplyMark(soup[n].attr, soup, n), Root) = TreeOf(soup, Root)


(***************************************************************************)
(* Claims about EmailParser as a whole (checked under SpecMail)            *)
(***************************************************************************)

\* the tree holds a quote container or a node with an attribute: a header
\* marker, or the class that makes a div a quote
HasQuoteOrMarker(ar) ==
    LET ds == Descendants(ar, Root) IN
    \E j \in 1..Len(ds) : IsTag(ar, ds[j]) /\ (ar[ds[j]].name = "blockquote" \/ ar[ds[j]].attr # "")

\* the text of the document: its words outside the system tags, in document order
DocumentText ==
    SelectSeq(OriginalWords, LAMBDA t : ~InSystemTag(original, t.w))

\* the document had no quote container, and none and no header marker is in the
\* tree process() returned
IsPlainDocument == ~HasQuoteOrMarker(original) /\ ~HasQuoteOrMarker(soup)

\* the header of a message that has no header string: None without a main
\* contact, else a Header whose sender is the main contact and nothing more
HasDefaultHeader(m) ==
    /\ m.hdr = main_contact
    /\ main_contact =>
          /\ m.from_ = MainContact
          /\ m.sent = NoneDT
          /\ ~m.to.has
          /\ m.subject = <<>>

\* a text is plain: words and whitespace, no markup, no word spelled with entities
IsPlainText(text) == \A i \in 1..Len(text) : text[i].k \in {"w", "s"} /\ text[i].a = ""

C19_OnlyNewestWithoutHeader ==
    (jpc = "done" /\ entry = "process" /\ ~main_contact) =>
        \A i \in 1..(Len(messages) - 1) : messages[i].hdr


(***************************************************************************)
(* Claims about the tree under the rewrites (checked under Spec)           *)
(***************************************************************************)

RECURSIVE EndsAtTop(_, _, _)
\* following .parent from n a place without parent is reached within fuel steps
EndsAtTop(ar, n, fuel) ==
    IF ar[n].parent = 0 THEN TRUE
    ELSE IF fuel = 0 THEN FALSE
    ELSE EndsAtTop(ar, ar[n].parent, fuel - 1)

\* every node a child list holds names the owner of that list as its parent, and
\* no list holds a node twice
ChildrenOwned(ar, p) ==
    \A i \in 1..Len(ar[p].kids) :
        /\ ar[ar[p].kids[i]].parent = p
        /\ Occurrences(ar[p].kids[i], ar[p].kids) = 1

\* a node with a parent stands exactly once in the child list of that parent and
\* in no other child list
HeldByParentOnly(ar, n) ==
    \A p \in 1..Len(ar) :
        Occurrences(n, ar[p].kids) = (IF ar[n].parent = p THEN 1 ELSE 0)

\* the document is a tree: its top has no parent, .parent and .contents agree
\* everywhere, and no node is above itself
IsWellFormed(ar) ==
    /\ ar[Root].parent = 0
    /\ \A n \in 1..Len(ar) :
          /\ ChildrenOwned(ar, n)
          /\ HeldByParentOnly(ar, n)
          /\ EndsAtTop(ar, n, Len(ar))

\* node n of the document handed in hangs in the tree under another parent than
\* it had, and that parent is a node of the given name
MovedUnder(n, name) ==
    /\ n <= Len(original)
    /\ soup[n].parent # 0
    /\ soup[n].parent # original[n].parent
    /\ ~soup[n].dead
    /\ soup[soup[n].parent].name = name

\* C20: every rewrite step of the Normalizer keeps the tree well formed - after
\* each step the tree has no cycle, every node stands among the children of at
\* most one parent, and the parent a node names is exactly the container whose
\* child list holds it (no node is both moved and left behind).
C20_TreeStaysWellFormed == IsWellFormed(soup)

\* move_remnants has just run on a document in which a quote was nested into
\* its neighbour and something that followed a quote was moved into a div
C20_Witness ==
    /\ pc = "convert_br_to_newlines"
    /\ \E n \in 1..Len(soup) : soup[n].name = "blockquote" /\ MovedUnder(n, "blockquote")
    /\ \E n \in 1..Len(soup) : soup[n].name # "blockquote" /\ MovedUnder(n, "div")


(***************************************************************************)
(* Claims about the single rewrites of the Normalizer (checked under Spec) *)
(***************************************************************************)

\* h is the first child, blank strings aside, of a quote container
HeaderOpensQuote(ar, h) ==
    LET p == ar[h].parent IN
    p # 0 /\ ar[p].name = "blockquote" /\ IsFirstChild(ar, p, h)

\* the nodes of s in front of the first one that carries a quote-header marker
UpToNextHeader(ar, s) ==
    LET stops == {j \in 1..Len(s) : IsQuoteHeader(ar, s[j])} IN
    SubSeq(s, 1, IF stops = {} THEN Len(s)
                 ELSE (CHOOSE j \in stops : \A m \in stops : j <= m) - 1)

\* the quote containers that the step from soup to soup' has made and hung in the tree
QuotesMadeByStep ==
    {n \in (Len(soup) + 1)..Len(soup') : soup'[n].name = "blockquote" /\ soup'[n].parent # 0}

\* every header marker of the tree after the step opens a quote container
EveryHeaderOpensQuote ==
    \A i \in 1..Len(FindAllHeaders(soup')) : HeaderOpensQuote(soup', FindAllHeaders(soup')[i])

\* a quote container made by the step holds a header and then what followed that
\* header before the step, in that order, as far as the next header
MadeQuoteHoldsRun ==
    \A bq \in QuotesMadeByStep :
        /\ soup'[bq].kids # <<>>
        /\ LET h == soup'[bq].kids[1] IN
           /\ h <= Len(soup)
           /\ IsQuoteHeader(soup, h)
           /\ soup'[bq].kids = <<h>> \o UpToNextHeader(soup, FollowingSiblings(soup, h))

\* C21: after ensure_blockquote every node that carries a quote-header marker is
\* the first non-blank child of a quote container; a quote container created by
\* the step holds the header followed by all the former following siblings of
\* the header, in their original order, up to but excluding the next sibling
\* that carries a quote-header marker.
C21_HeaderOpensItsQuote ==
    [][EnsureBlockquote => (EveryHeaderOpensQuote /\ MadeQuoteHoldsRun)]_vars

\* ensure_blockquote has made a quote container that holds a header and two
\* nodes that followed it and stops in front of the next header, which opens a
\* quote container of its own
C21_Witness ==
    /\ pc = "nest_neighboring_quotes"
    /\ \E bq \in 1..Len(soup) :
          /\ bq > Len(original)
          /\ soup[bq].name = "blockquote" /\ soup[bq].parent # 0
          /\ Len(soup[bq].kids) >= 2
          /\ IsQuoteHeader(soup, soup[bq].kids[1])
          /\ LET nx == NextSibling(soup, bq) IN
             /\ nx # 0 /\ nx > Len(original)
             /\ soup[nx].name = "blockquote"
             /\ soup[nx].kids # <<>> /\ IsQuoteHeader(soup, soup[nx].kids[1])


\* the first divider, in document order, that a one-line header follows; 0 if
\* there is none
DividerInTurn(ar) ==
    LET dividers == FindAllMarked(ar, "divider")
        hits == {m \in 1..Len(dividers) : IsForwardDivider(ar, dividers[m])}
    IN IF hits = {} THEN 0 ELSE dividers[CHOOSE m \in hits : \A m2 \in hits : m <= m2]

\* the place in ks of the end divider that closes the divider at place i: every
\* divider after it opens a region of its own, which its own end divider closes;
\* 0 if the run ends first
MatchingEnd(ar, ks, i) ==
    FoldSeq(LAMBDA st, j :
                IF st.at # 0 \/ ~IsTag(ar, ks[j]) THEN st
                ELSE IF ar[ks[j]].attr = "divider" THEN [st EXCEPT !.open = @ + 1]
                ELSE IF ar[ks[j]].attr # "end_divider" THEN st
                ELSE IF st.open = 0 THEN [st EXCEPT !.at = j]
                ELSE [st EXCEPT !.open = @ - 1],
            [open |-> 0, at |-> 0],
            [m \in 1..(Len(ks) - i) |-> i + m]).at

\* the step has moved what stood between divider d and the end divider at place
\* e of d's parent (the end of the run if e = 0) into a new quote container in
\* the place of d, and has removed the two markers
ForwardedRegionWrapped(d, e) ==
    LET p == soup[d].parent
        ks == soup[p].kids
        i == IndexOf(ks, d)
        bq == Len(soup) + 1
    IN /\ Len(soup') = bq
       /\ soup'[bq].name = "blockquote"
       /\ soup'[bq].kids = SubSeq(ks, i + 1, IF e = 0 THEN Len(ks) ELSE e - 1)
       /\ soup'[p].kids = SubSeq(ks, 1, i - 1) \o <<bq>>
                              \o (IF e = 0 THEN <<>> ELSE SubSeq(ks, e + 1, Len(ks)))
       /\ soup'[d].dead
       /\ e # 0 => soup'[ks[e]].dead

\* the dividers the step had not to deal with are in the tree as they were
OtherDividersUntouched ==
    LET dividers == FindAllMarked(soup, "divider") IN
    \A m \in 1..Len(dividers) :
        dividers[m] # DividerInTurn(soup) =>
            /\ soup'[dividers[m]].parent # 0
            /\ TreeOf(soup', dividers[m]) = TreeOf(soup, dividers[m])

\* C22 as stated: process_forwarded_messages, for each Divider whose next
\* significant sibling is (or has as first child) a one-line header, moves
\* exactly the siblings between that Divider and its matching EndDivider (the
\* one that closes this Divider when forwarded regions are nested; the end of
\* the sibling run if there is none), in their original order, into one new
\* quote container placed where the Divider was, and removes both markers; a
\* Divider not followed by such a header is left in the tree untouched.
C22_ForwardedRegionToMatchingEnd ==
    [][ProcessForwardedMessages =>
          LET d == DividerInTurn(soup) IN
          /\ OtherDividersUntouched
          /\ d = 0 => soup' = soup
          /\ d # 0 => ForwardedRegionWrapped(d,
                          MatchingEnd(soup, soup[soup[d].parent].kids,
                                      IndexOf(soup[soup[d].parent].kids, d)))]_vars


\* div d holds no div, no quote container and no header marker
NoBlockInside(ar, d) ==
    \A i \in 1..Len(ar[d].kids) :
        LET c == ar[d].kids[i] IN
        ~(IsTag(ar, c) /\ (ar[c].name \in {"div", "blockquote"} \/ IsHeaderAttr(ar[c].attr)))

\* the previous significant sibling of div d is not a div without header marker
NoDivInFront(ar, d) ==
    LET prev == GetSignificantSibling(ar, d, "prev", FALSE) IN
    ~(prev # 0 /\ IsTag(ar, prev) /\ ar[prev].name = "div" /\ ~IsQuoteHeader(ar, prev))

\* at the root or directly inside a quote container div d has only structural
\* nodes for siblings, strings of white space aside (they are not significant)
NoLooseSibling(ar, d) ==
    LET p == ar[d].parent IN
    (p = Root \/ ar[p].name = "blockquote") =>
        \A i \in 1..Len(ar[p].kids) :
            IsStructuralBlock(ar, ar[p].kids[i]) \/ IsBlank(ar, ar[p].kids[i])

\* block flattening has nothing left to do in the tree
IsFlattened(ar) ==
    LET divs == FindAll(ar, "div") IN
    \A i \in 1..Len(divs) :
        ~IsQuoteHeader(ar, divs[i]) =>
            /\ NoBlockInside(ar, divs[i])
            /\ NoDivInFront(ar, divs[i])
            /\ NoLooseSibling(ar, divs[i])

\* C23: when unwrap_div returns, the tree is at the fixpoint of block
\* flattening - no non-header div has a div, a quote container or a header
\* marker as a direct child, no non-header div has a non-header div as its
\* previous significant sibling, and no non-structural node (text, line break,
\* table) is a sibling of a div at the root or directly inside a quote container.
C23_FlattenedWhenUnwrapDivReturns == pc = "ensure_blockquote" => IsFlattened(soup)


\* the first child of c that is a quote container; 0 if there is none
FirstQuoteIn(ar, c) ==
    LET bqs == SelectSeq(ar[c].kids, LAMBDA k : IsNamed(ar, k, "blockquote")) IN
    IF bqs = <<>> THEN 0 ELSE bqs[1]

RECURSIVE QuoteChain(_, _)
\* the chain that descends from c through the first quote container of each level
QuoteChain(ar, c) ==
    LET q == FirstQuoteIn(ar, c) IN IF q = 0 THEN <<>> ELSE <<q>> \o QuoteChain(ar, q)

\* quote is the last child of its level
IsLastOfLevel(ar, quote) ==
    LET ks == ar[ar[quote].parent].kids IN ks[Len(ks)] = quote

\* what the step has put at the end of the div in front of quote, the line
\* breaks it has made for the purpose aside
MovedInFrontOf(quote) ==
    LET target == TargetDivBefore(soup', PreviousSibling(soup', quote))
        had == IF target <= Len(soup) THEN Len(soup[target].kids) ELSE 0
    IN SelectSeq(SubSeq(soup'[target].kids, had + 1, Len(soup'[target].kids)),
                 LAMBDA x : x <= Len(soup))

\* what a remnant brings along: a div its children, any other node itself
BroughtBy(ar, node) == IF IsNamed(ar, node, "div") THEN ar[node].kids ELSE <<node>>

\* for every node of s in turn, what it brings along
BroughtByAll(ar, s) == FoldSeq(LAMBDA out, node : out \o BroughtBy(ar, node), <<>>, s)

\* C24 as stated: after move_remnants, at every nesting level on the chain that
\* starts at the root and descends through the first direct-child quote
\* container, that quote container is the last child of its level - all its
\* former following siblings have been moved, in their original order, to the
\* end of the non-header div immediately preceding it (a new div is created
\* there if none exists), and a trailing sibling that is itself a quote
\* container is moved like any other remnant.
C24_RemnantsMovedBehind ==
    [][MoveRemnants =>
          \A i \in 1..Len(QuoteChain(soup', Root)) :
              LET quote == QuoteChain(soup', Root)[i] IN
              /\ IsLastOfLevel(soup', quote)
              /\ TargetDivBefore(soup', PreviousSibling(soup', quote)) # 0
              /\ MovedInFrontOf(quote) = FollowingSiblings(soup, quote)]_vars

\* C24, amended: after move_remnants every quote container on that chain is the
\* last child of its level and has a non-header div in front of it (made by the
\* step if there was none), at the end of which stand, in their original order,
\* the former following siblings of the quote container - a quote container
\* among them like any other node, but of a div among them its children in its
\* place, the div itself being dropped.
C24_RemnantContentsMovedBehind ==
    [][MoveRemnants =>
          \A i \in 1..Len(QuoteChain(soup', Root)) :
              LET quote == QuoteChain(soup', Root)[i] IN
              /\ IsLastOfLevel(soup', quote)
              /\ TargetDivBefore(soup', PreviousSibling(soup', quote)) # 0
              /\ MovedInFrontOf(quote) = BroughtByAll(soup, FollowingSiblings(soup, quote))]_vars

\* move_remnants has moved a div's children and a quote container that followed
\* the first quote container of the root into the div in front of it
C24_Witness ==
    /\ pc = "convert_br_to_newlines"
    /\ LET quote == FirstQuoteIn(soup, Root) IN
       /\ quote # 0
       /\ IsLastOfLevel(soup, quote)
       /\ LET target == TargetDivBefore(soup, PreviousSibling(soup, quote)) IN
          /\ target # 0
          /\ \E n \in 1..Len(original) :
                /\ soup[n].parent = target /\ original[n].parent # Root
                /\ soup[original[n].parent].name = "div" /\ soup[original[n].parent].parent = 0
          /\ \E n \in 1..Len(soup) : soup[n].parent = target /\ soup[n].name = "blockquote"


(***************************************************************************)
(* Claims about what the header adapters accept (checked under SpecHeaders)*)
(***************************************************************************)

\* the text has 10 to 350 characters and at most 3 line breaks, a date and a
\* time, and an e-mail address or a sender keyword
IsDatedSenderLine(t) ==
    /\ TextLen(t) >= 10 /\ TextLen(t) <= 350
    /\ CountNewlines(t) <= 3
    /\ HasDate(t) /\ HasTime(t)
    /\ HasEmail(t) \/ HasKeyword(t)

\* C25 as stated: every node that OnelineHeaderAdapter.match accepts has text of
\* 10 to 350 characters with at most 3 line breaks and contains both a date
\* pattern and a time pattern, together with an e-mail address or a sender
\* keyword; a node that has an action phrase and a trailing colon but lacks the
\* date pattern (or lacks the time pattern) is not accepted.
C25_OnelineNeedsDateAndTime ==
    [][MarkCandidate =>
          LET node == headers[hpos]
              t == GetCleanText(soup, node)
          IN /\ OnelineMatch(soup, node) => IsDatedSenderLine(t)
             /\ (HasActionPhrase(t) /\ EndsWithColon(t) /\ ~(HasDate(t) /\ HasTime(t)))
                    => ~OnelineMatch(soup, node)]_vars


\* the key labels a word holds, each label counted for itself: Sent and Date are
\* two labels, though one of the KEY_PATTERNS finds both
LabelsOf(c) ==
    IF c = "kv" THEN {"From", "Sent"}
    ELSE IF c = "key" THEN {"To"}
    ELSE IF c = "sd" THEN {"Sent", "Date"}
    ELSE {}

\* the key labels in text
LabelsIn(t) == UNION {LabelsOf(c) : c \in Classes(t)}

\* the text of x has 15 to 1000 characters and two key labels or more, the first
\* of them within the first 50 characters, and the non-blank sibling in front of
\* x holds no key label
IsLabelledBlock(ar, x) ==
    LET t == GetCleanText(ar, x)
        prev == SkipBlankBack(ar, PreviousSibling(ar, x))
    IN /\ TextLen(t) >= 15 /\ TextLen(t) <= 1000
       /\ Cardinality(LabelsIn(t)) >= 2
       /\ FirstKeyPos(t) <= 50
       /\ prev # 0 => LabelsIn(GetCleanText(ar, prev)) = {}

\* C26 as stated: KeyValueHeaderAdapter.match accepts an element exactly when
\* its text has 15 to 1000 characters, contains at least 2 of the recognized key
\* labels (two labels of the same group, such as Sent and Date, count as two),
\* the first label lies within the first 50 characters, and the immediately
\* preceding non-blank sibling contains no key label.  (Elements are tags that
\* hold no marked node.)
C26_TwoLabelsMakeABlock ==
    [][MarkCandidate =>
          LET node == headers[hpos] IN
          (IsTag(soup, node) /\ ~HasMarkedChildren(soup, node)) =>
              (KeyValueMatch(soup, node) <=> IsLabelledBlock(soup, node))]_vars


\* the run that MultipleDivHeaderAdapter.match accepts for element x: the
\* siblings it has collected in front of x, x, and those it has collected after x
AcceptedRun(ar, x) ==
    PrevKeySiblings(ar, PreviousSibling(ar, x)) \o <<x>> \o NextKeySiblings(ar, NextSibling(ar, x))

\* the nodes of a run: its members and what is below them
NodesOfRun(ar, run) ==
    UNION {{run[i]} \cup {Descendants(ar, run[i])[j] : j \in 1..Len(Descendants(ar, run[i]))}
           : i \in 1..Len(run)}

\* the step has put one container in the place of the run: the first member,
\* holding the texts of the members joined by single spaces and carrying the
\* marker of the multiple-div block; the other members are gone, and nothing
\* else has changed
RunMergedIntoFirst(run) ==
    LET first == run[1]
        p == soup[first].parent
        others == {run[i] : i \in 2..Len(run)}
    IN /\ soup'[first].parent = p /\ ~soup'[first].dead
       /\ soup'[first].attr = "quote_header_multiple_block"
       /\ GetCleanText(soup', first)
              = Join(<<SP>>, List([i \in 1..Len(run) |-> GetCleanText(soup, run[i])]))
       /\ soup'[p].kids = SelectSeq(soup[p].kids, LAMBDA k : k \notin others)
       /\ \A n \in others : soup'[n].dead
       /\ \A n \in 1..Len(soup) : (n \notin NodesOfRun(soup, run) /\ n # p) => soup'[n] = soup[n]

\* C27 as stated: for a run accepted by MultipleDivHeaderAdapter.match (2 to 5
\* adjacent sibling containers, the first one starting with a key label, combined
\* text at most 600 characters), mark replaces the whole run by one container
\* placed where the first member was, whose text is the members' normalized
\* texts in document order joined by single spaces and which carries the
\* MultiDivBlock tag; all other members are removed and no node outside the run
\* is changed, whichever member of the run mark was called on.
C27_RunMergedInPlace ==
    [][MarkCandidate =>
          LET node == headers[hpos] IN
          (IsVisited(soup, node) /\ FirstMatchKind(soup, node) = "quote_header_multiple_block") =>
              /\ Len(AcceptedRun(soup, node)) \in 2..5
              /\ StartsWithKey(GetCleanText(soup, AcceptedRun(soup, node)[1]))
              /\ RunMergedIntoFirst(AcceptedRun(soup, node))]_vars

(***************************************************************************)
(* Claims about the reconciliation of bare dates and of runs of missing    *)
(* timestamps (checked under SpecJson).                                    *)
(***************************************************************************)

\* the message has a header whose sent reads 00:00:00 and has no tzinfo
DateOnlyMsg(m) == m.hdr /\ m.sent.has /\ ~m.sent.aware /\ m.sent.wall % Day = 0

\* the message has a header whose sent reads 00:00:00 and has a tzinfo
MidnightWithOffset(m) == m.hdr /\ m.sent.has /\ m.sent.aware /\ m.sent.wall % Day = 0

\* dt.date(), as a day number, and dt.time(), in ticks after midnight
DateOf(dt) == dt.wall \div Day
TimeOf(dt) == dt.wall % Day

\* the list with the timestamp of message i taken away
WithoutSent(msgs, i) == [msgs EXCEPT ![i].sent = NoneDT]

\* what message i gets when it comes with no timestamp at all
AsMissing(msgs, i) == process_timestamps(WithoutSent(msgs, i))[i].sent

TwoMissingBetween(msgs) ==
    /\ Len(msgs) = 4
    /\ KnownMsg(msgs[1]) /\ MissingMsg(msgs[2]) /\ MissingMsg(msgs[3]) /\ KnownMsg(msgs[4])
    /\ Instant(msgs[1].sent) < Instant(msgs[4].sent)

\* C29: in a list a, missing, missing, b (a before b) the second message
\* gets the midpoint of a and b, the third the midpoint of that value and b,
\* the four timestamps increase strictly, and the number of messages, their
\* order and their texts are as they were.
C29_RunFilledFromOldest ==
    (jpc = "reconciled" /\ TwoMissingBetween(jin)) =>
        /\ Len(messages) = Len(jin)
        /\ \A k \in 1..Len(jin) : messages[k].text = jin[k].text /\ messages[k].hdr = jin[k].hdr
        /\ messages[1].sent = jin[1].sent /\ messages[4].sent = jin[4].sent
        /\ messages[2].sent.has /\ messages[3].sent.has
        /\ 2 * Instant(messages[2].sent) = Instant(jin[1].sent) + Instant(jin[4].sent)
        /\ 2 * Instant(messages[3].sent) = Instant(messages[2].sent) + Instant(jin[4].sent)
        /\ \A k \in 1..3 : Instant(messages[k].sent) < Instant(messages[k + 1].sent)

(***************************************************************************)
(* SpecLoad: HtmlProcessor(filepath=..., encoding=...) reading one file in *)
(* two interpreter runs.  A byte is its value, a decoded character its     *)
(* code point.  The files are made of the bytes 0x61 (a), 0xD0 0xBF (the   *)
(* UTF-8 spelling of U+043F), 0x98 (undefined in windows-1251) and 0xFF    *)
(* (never valid in UTF-8).                                                 *)
(***************************************************************************)
MaxFileLen == 3

FileBytes == {97, 152, 191, 208, 255}

RECURSIVE Files(_)
\* the byte strings of at most n bytes
Files(n) ==
    IF n = 0 THEN {<<>>}
    ELSE Files(n - 1) \cup {Append(f, b) : f \in {g \in Files(n - 1) : Len(g) = n - 1}, b \in FileBytes}

\* HtmlProcessor.ENCODINGS, a set of str
ENCODINGS == {"utf-8", "windows-1251"}

\* the orders in which "for encoding in self.ENCODINGS" can visit the set:
\* a set of str is iterated by hash, and str hashes are salted anew for each
\* interpreter run
IterationOrders(S) ==
    {o \in [1..Cardinality(S) -> S] : \A i, j \in 1..Cardinality(S) : o[i] = o[j] => i = j}

\* the outcome of a decoding: UnicodeDecodeError, or the text
DecodeError == [raised |-> TRUE, text |-> <<>>]
Decoded(t) == [raised |-> FALSE, text |-> t]

\* c followed by the rest of the decoding, an error in the rest kept
Then(c, rest) == IF rest.raised THEN rest ELSE Decoded(<<c>> \o rest.text)

RECURSIVE DecodeUtf8(_, _)
\* bytes.decode("utf-8", errors) for one- and two-byte sequences: an ASCII
\* byte, or a lead byte 0xC2-0xDF with a continuation byte 0x80-0xBF; any
\* other byte is an error, dropped when errors is "ignore"
DecodeUtf8(bs, errors) ==
    IF bs = <<>> THEN Decoded(<<>>)
    ELSE IF bs[1] < 128 THEN Then(bs[1], DecodeUtf8(Tail(bs), errors))
    ELSE IF bs[1] >= 194 /\ bs[1] <= 223 /\ Len(bs) >= 2 /\ bs[2] >= 128 /\ bs[2] <= 191
         THEN Then((bs[1] - 192) * 64 + (bs[2] - 128), DecodeUtf8(Tail(Tail(bs)), errors))
    ELSE IF errors = "ignore" THEN DecodeUtf8(Tail(bs), errors)
    ELSE DecodeError

RECURSIVE DecodeCp1251(_)
\* bytes.decode("windows-1251"): ASCII as it is, 0xC0-0xFF the letters from
\* U+0410 on, 0xBF is U+0457, 0x98 is undefined
DecodeCp1251(bs) ==
    IF bs = <<>> THEN Decoded(<<>>)
    ELSE IF bs[1] < 128 THEN Then(bs[1], DecodeCp1251(Tail(bs)))
    ELSE IF bs[1] >= 192 THEN Then(1040 + (bs[1] - 192), DecodeCp1251(Tail(bs)))
    ELSE IF bs[1] = 191 THEN Then(1111, DecodeCp1251(Tail(bs)))
    ELSE DecodeError

\* self.filepath.read_text(encoding=encoding)
read_text(bs, encoding) ==
    IF encoding = "utf-8" THEN DecodeUtf8(bs, "strict") ELSE DecodeCp1251(bs)

RECURSIVE TryEncodings(_, _, _)
\* for encoding in self.ENCODINGS: try ... except UnicodeDecodeError: continue;
\* after the loop read_text(encoding="utf-8", errors="ignore")
TryEncodings(bs, o, k) ==
    IF k > Len(o)
    THEN [raised |-> FALSE, encoding |-> "none", html |-> DecodeUtf8(bs, "ignore").text]
    ELSE LET d == read_text(bs, o[k])
         IN  IF d.raised THEN TryEncodings(bs, o, k + 1)
             ELSE [raised |-> FALSE, encoding |-> o[k], html |-> d.text]

\* _read_file: what it leaves in self.encoding and self.html, or that it raised
read_file(bs, encoding, o) ==
    IF encoding # "none"
    THEN LET d == read_text(bs, encoding)
         IN  [raised |-> d.raised, encoding |-> encoding, html |-> d.text]
    ELSE TryEncodings(bs, o, 1)

InitLoad ==
    /\ HIdle
    /\ JIdle
    /\ filebytes \in Files(MaxFileLen)
    /\ given \in {"none"} \cup ENCODINGS
    /\ order = <<>>
    /\ loads = <<>>

\* a Python interpreter starts and the class body of HtmlProcessor builds ENCODINGS
StartInterpreter ==
    /\ order = <<>>
    /\ Len(loads) < 2
    /\ order' \in IterationOrders(ENCODINGS)
    /\ UNCHANGED <<filebytes, given, loads>>
    /\ UNCHANGED jvars
    /\ UNCHANGED hvars

\* HtmlProcessor(filepath=..., encoding=given): self._read_file()
ReadFile ==
    /\ order # <<>>
    /\ loads' = Append(loads, read_file(filebytes, given, order))
    /\ order' = <<>>
    /\ UNCHANGED <<filebytes, given>>
    /\ UNCHANGED jvars
    /\ UNCHANGED hvars

NextLoad == StartInterpreter \/ ReadFile

SpecLoad == InitLoad /\ [][NextLoad]_vars

(***************************************************************************)
(* Claims about loading a file (checked under SpecLoad).                   *)
(***************************************************************************)

\* C30: when no encoding is given, two runs on the same file bytes settle
\* on the same encoding and leave the same decoded text.
C30_LoadingDeterministic ==
    (given = "none" /\ Len(loads) = 2) => loads[1] = loads[2]

====
